---- MODULE Spec2Model ----
(***************************************************************************)
(* Fracta: the Timeseries indicator (bar store), its TimeseriesDF and      *)
(* WhitespaceDF wrappers and the Calendars cache, as a state machine.      *)
(*                                                                         *)
(* Time is counted in whole units of the smallest bar period a batch can   *)
(* carry (one unit = one minute); pd.Timestamp(0), the epoch, is 0.        *)
(* pandas_market_calendars is not enabled by default (mcal is None), so    *)
(* the calendar token of every store is "24/7".                            *)
(***************************************************************************)
EXTENDS Integers, Sequences, FiniteSets, TLC

\* ------------------------------------------------------------------ bounds
\* Length of the arbitrary-order tail of a batch handed to set_data.
MaxTail == 2
\* Number of distinct timestamps the records of a tail are drawn from.
TailSpan == 4
\* set_data / update_data / clear_data calls in one behaviour.
MaxOps == 3

\* Stride of the regular run a batch starts with.
RunStride == 2
\* Calls on the shared Calendars instance in one behaviour.
MaxCalOps == 3
\* Calls on one Emitter in one behaviour.
MaxEmitOps == 4

\* ------------------------------------------------------- program constants
\* numpy nan / a dataclass field that is None
NA == -1
\* pd.Timestamp(0)
Epoch == 0
\* WhitespaceDF.BUFFER_LEN
BUFFER_LEN == 500
\* WhitespaceDF.OVERLAP_LEN
OVERLAP_LEN == 5
\* determine_timedelta reads series[0:250]
TD_WINDOW == 250
\* bar_time reads whitespace_data.df["time"].iloc[(index - len) - 500]
BAR_TIME_OFFSET == 500

None == [none |-> TRUE]

Max(a, b) == IF a >= b THEN a ELSE b
Min(a, b) == IF a <= b THEN a ELSE b

\* Python's max(a, b) / min(a, b) on floats where a may be nan: the first
\* argument is returned unless the second compares greater (smaller); every
\* comparison with nan is False.
\* (PyMaxOverwrite: the variant in which the incoming value always wins.)
PyMaxOverwrite(a, b) == b
PyMax(a, b) == IF a = NA THEN NA ELSE IF b = NA THEN a ELSE Max(a, b)
\* (PyMinOverwrite: the variant in which the incoming value always wins.)
PyMinOverwrite(a, b) == b
PyMin(a, b) == IF a = NA THEN NA ELSE IF b = NA THEN a ELSE Min(a, b)
\* float addition with nan
PyAdd(a, b) == IF a = NA \/ b = NA THEN NA ELSE a + b

Last(s) == s[Len(s)]

\* ------------------------------------------------------------ the inputs
\* A batch handed to set_data: its records' timestamps in the order given,
\* the column set ("shape") and whether its column names are well formed.
\* A batch is a regular run of rows (none, or OVERLAP_LEN - 1 of them with a
\* stride of RunStride) followed by up to MaxTail records in any order, with
\* or without repeated timestamps, drawn from TailSpan timestamps around the
\* run's end. Every such sequence of timestamps comes with the OHLC + volume
\* columns; the other column sets come with the regular batches of two and
\* of OVERLAP_LEN rows; a batch whose column names are not well formed comes
\* in both lengths set_data tells apart (at most one record, more than one).
Shapes == {"ohlc", "ohlcv", "sv", "svv", "ws"}

BaseRun == [i \in 1..(OVERLAP_LEN - 1) |-> 1 + (i - 1) * RunStride]
Bases == {<< >>, BaseRun}
TailFrom(base) == IF base = << >> THEN 1 ELSE Last(base) - 1
TailTimes(base) == TailFrom(base)..(TailFrom(base) + TailSpan - 1)
Tails(base) == UNION {[1..k -> TailTimes(base)] : k \in 0..MaxTail}
BatchTimes == UNION {{base \o tail : tail \in Tails(base)} : base \in Bases}
RegularTimes == {<<1, 1 + RunStride>>, BaseRun \o <<Last(BaseRun) + RunStride>>}
Batches ==
    [times : BatchTimes, shape : {"ohlcv"}, fmt : {"ok"}]
    \cup [times : RegularTimes, shape : Shapes, fmt : {"ok"}]
    \cup [times : {<<1>>, <<1, 1 + RunStride>>}, shape : {"ohlcv"},
          fmt : {"dup_alias", "no_time"}]
    \cup [times : {<<1, 1 + RunStride>>}, shape : {"ohlcv"}, fmt : {"alias"}]

ShapeColumns(shape) ==
    CASE shape = "ohlc" -> {"open", "high", "low", "close"}
      [] shape = "ohlcv" -> {"open", "high", "low", "close", "volume"}
      [] shape = "sv" -> {"value"}
      [] shape = "svv" -> {"value", "volume"}
      [] OTHER -> {}

\* The column names of a batch as given, lower-cased: the standard names, the
\* short aliases, a second volume-like column, or no time-like column.
RawColumns(batch) ==
    CASE batch.fmt = "alias" -> {"t", "o", "h", "l", "c", "v"}
      [] batch.fmt = "dup_alias" -> {"time"} \cup ShapeColumns(batch.shape) \cup {"vol"}
      [] batch.fmt = "no_time" -> ShapeColumns(batch.shape)
      [] OTHER -> {"time"} \cup ShapeColumns(batch.shape)

\* _standardize_names: the alias lists, the standard name first in the code's
\* lists; only the time-like column is required.
TimeAliases == {"time", "t", "dt", "date", "datetime", "timestamp"}
AliasGroups ==
    {[aliases |-> TimeAliases, required |-> TRUE],
     [aliases |-> {"open", "o", "first"}, required |-> FALSE],
     [aliases |-> {"close", "c", "last"}, required |-> FALSE],
     [aliases |-> {"high", "h", "max"}, required |-> FALSE],
     [aliases |-> {"low", "l", "min"}, required |-> FALSE],
     [aliases |-> {"volume", "v", "vol"}, required |-> FALSE],
     [aliases |-> {"value", "val", "data", "price"}, required |-> FALSE],
     [aliases |-> {"vwap", "vw"}, required |-> FALSE],
     [aliases |-> {"ticks", "tick", "count", "trade_count", "n"}, required |-> FALSE]}
\* (column_name_check_lenient: the variant that accepts several aliases of a field.)
column_name_check_lenient(column_names, aliases, required) ==
    required /\ column_names \cap aliases = {}
\* _column_name_check raises AttributeError.
column_name_check_raises(column_names, aliases, required) ==
    \/ required /\ column_names \cap aliases = {}
    \/ Cardinality(column_names \cap aliases) > 1
\* _standardize_names raises AttributeError.
standardize_names_raises(column_names) ==
    \E g \in AliasGroups : column_name_check_raises(column_names, g.aliases, g.required)

\* The i-th record of a batch: its field values depend on its position, so
\* two records that share a timestamp can be told apart.
Field(cols, name, v) == IF name \in cols THEN v ELSE NA
BatchRow(cols, i, t) ==
    [time |-> t,
     open |-> Field(cols, "open", 2),
     high |-> Field(cols, "high", 4),
     low |-> Field(cols, "low", 1),
     close |-> Field(cols, "close", 2 + (i % 2)),
     value |-> Field(cols, "value", 2 + (i % 2)),
     volume |-> Field(cols, "volume", 1 + (i % 2))]
BatchRows(batch) ==
    [i \in 1..Len(batch.times) |-> BatchRow(ShapeColumns(batch.shape), i, batch.times[i])]

\* An update handed to update_data: a WhitespaceData, SingleValueData or
\* OhlcData instance (kind), with volume None (NA) or a number.
UpdVals == {0, 5}
UpdOhlc == {[open |-> 3, high |-> 5, low |-> 2, close |-> 3]}
UpdVolumes == {NA, 2}
WsUpdate(t) == [kind |-> "ws", time |-> t, open |-> NA, high |-> NA, low |-> NA,
                close |-> NA, value |-> NA, volume |-> NA]
SvUpdate(t, v, vol) == [kind |-> "sv", time |-> t, open |-> NA, high |-> NA, low |-> NA,
                        close |-> NA, value |-> v, volume |-> vol]
OhlcUpdate(t, b, vol) == [kind |-> "ohlc", time |-> t, open |-> b.open, high |-> b.high,
                          low |-> b.low, close |-> b.close, value |-> NA, volume |-> vol]
UpdatesAt(t) ==
    {WsUpdate(t)}
    \cup {SvUpdate(t, v, vol) : v \in UpdVals, vol \in UpdVolumes}
    \cup {OhlcUpdate(t, b, vol) : b \in UpdOhlc, vol \in UpdVolumes}
\* accumulate matters to update_curr_bar only for an update that has a volume.
Accumulates(data) == IF data.volume = NA THEN {FALSE} ELSE BOOLEAN

\* ------------------------------------------------- types.TF, series_dtypes
\* TF.from_timedelta: a positive interval is a whole number of minutes; no
\* timeframe has a multiplier below one (period "E": unknown timeframe).
TF_from_timedelta(td) ==
    IF td >= 1 THEN [mult |-> td, period |-> "m"] ELSE [mult |-> 1, period |-> "E"]
\* TF.as_timedelta, in minutes. Months, quarters and years have no fixed
\* duration: a nominal number of days.
TF_as_timedelta(tf) ==
    CASE tf.period = "m" -> tf.mult
      [] tf.period = "h" -> 60 * tf.mult
      [] tf.period = "D" -> 1440 * tf.mult
      [] tf.period = "W" -> 10080 * tf.mult
      [] tf.period = "M" -> 30 * 1440 * tf.mult
      [] tf.period = "Q" -> 91 * 1440 * tf.mult
      [] tf.period = "Y" -> 365 * 1440 * tf.mult
      [] OTHER -> 0

\* SeriesType.data_type: the basic type of a dataframe, from its columns.
SeriesType_data_type(cols) ==
    IF {"open", "high", "low", "close"} \subseteq cols THEN "ohlc"
    ELSE IF "value" \in cols THEN "sv"
    ELSE "ws"

\* --------------------------------------------------------------- Calendars
\* Calendars.request_calendar with mcal None.
request_calendar == "24/7"

\* pandas timestamps: the day a time falls on and its time of day; the day of
\* the week (Monday = 0) of a day, pd.Timestamp(0) being a Thursday.
DAY == 1440
WEEK == 7
DayOf(t) == t \div DAY
TimeOfDay(t) == t % DAY
Weekday(d) == (d + 3) % 7

\* The days the anchored pandas offsets fall on: "W" (W-SUN) on Sundays, "MS"
\* on the first of a month, "QS" of a quarter, "YS" of a year (days since the
\* epoch, for 1970, 1971 and 1972).
MonthStarts == {0, 31, 59, 90, 120, 151, 181, 212, 243, 273, 304, 334,
                365, 396, 424, 455, 485, 516, 546, 577, 608, 638, 669, 699,
                730, 761, 790, 821, 851, 882, 912, 943, 974, 1004, 1035, 1065, 1096}
QuarterStarts == {0, 90, 181, 273, 365, 455, 546, 638, 730, 821, 912, 1004, 1096}
YearStarts == {0, 365, 730, 1096}
IsAnchor(period, d) ==
    CASE period = "W" -> Weekday(d) = 6
      [] period = "M" -> d \in MonthStarts
      [] period = "Q" -> d \in QuarterStarts
      [] OTHER -> d \in YearStarts
\* offset.rollforward: the first anchor at or after day d.
RollForward(period, d) ==
    CHOOSE a \in d..(d + 366) :
        IsAnchor(period, a) /\ \A b \in d..(a - 1) : ~IsAnchor(period, b)
RECURSIVE AnchorsOn(_, _, _)
AnchorsOn(period, a, n) ==
    IF n = 0 THEN a ELSE AnchorsOn(period, RollForward(period, a + 1), n - 1)
\* pd.date_range(current_time, freq=<mult><period>, periods=2)[-1] for an
\* anchored period: the time of day is kept.
AnchoredNext(current_time, tf) ==
    AnchorsOn(tf.period, RollForward(tf.period, DayOf(current_time)), tf.mult) * DAY
        + TimeOfDay(current_time)

\* (NextTimeSame: the variant that does not step.)
NextTimeSame(current_time, tf) == current_time
\* Calendars.next_timestamp, lines 217-222: next_time.
NextTime(current_time, tf) ==
    IF tf.period \in {"W", "M", "Q", "Y"}
    THEN AnchoredNext(current_time, tf)
    ELSE current_time + TF_as_timedelta(tf)

\* Calendars.next_timestamp for the "24/7" token (lines 224-225).
next_timestamp(calendar, current_time, tf) == NextTime(current_time, tf)

\* Calendars.date_range for the "24/7" token: pd.date_range(start, freq, periods).
date_range(calendar, tf, start, periods) ==
    [i \in 1..periods |-> start + (i - 1) * TF_as_timedelta(tf)]

\* Calendars.mark_session: None for the "24/7" token.
mark_session(calendar) == "None"

\* ------------------------------------------------------------ TimeseriesDF
\* (determine_timedelta_first: the variant that takes the first difference.)
determine_timedelta_first(times) == {times[2] - times[1]}
\* determine_timedelta: the most frequent difference of consecutive
\* timestamps among the first TD_WINDOW records, in the order given. Several
\* differences may be equally frequent: the set of them.
determine_timedelta(times) ==
    LET w == SubSeq(times, 1, Min(Len(times), TD_WINDOW))
        diff(i) == w[i + 1] - w[i]
        count(d) == Cardinality({i \in 1..(Len(w) - 1) : diff(i) = d})
        ds == {diff(i) : i \in 1..(Len(w) - 1)}
    IN {d \in ds : \A e \in ds : count(e) <= count(d)}

\* pandas_df[~pandas_df["time"].duplicated(keep="first")].set_index("time"):
\* the first n rows without the rows whose timestamp an earlier row carries,
\* in the order given.
RECURSIVE DropDuplicated(_, _)
DropDuplicated(rows, n) ==
    IF n = 0 THEN << >>
    ELSE IF \E j \in 1..(n - 1) : rows[j].time = rows[n].time
         THEN DropDuplicated(rows, n - 1)
         ELSE Append(DropDuplicated(rows, n - 1), rows[n])

\* TimeseriesDF._mark_ext for a batch without a session column.
mark_ext(calendar) == IF mark_session(calendar) = "None" THEN "None" ELSE "True"

\* TimeseriesDF.__init__ past the length check and _standardize_names, for
\* the inferred timedelta td.
TimeseriesDF(batch, td) ==
    LET df == DropDuplicated(BatchRows(batch), Len(batch.times))
        tf == TF_from_timedelta(td)
    IN [df |-> df,
        columns |-> ShapeColumns(batch.shape),
        data_type |-> SeriesType_data_type(ShapeColumns(batch.shape)),
        pd_tf |-> td,
        tf |-> tf,
        calendar |-> request_calendar,
        ext |-> mark_ext(request_calendar),
        next_bar_time |-> next_timestamp(request_calendar, Last(df).time, tf)]

curr_bar_open_time(md) == Last(md.df).time
curr_bar_close_time(md) == curr_bar_open_time(md) + md.pd_tf

\* (MergedVolumeOverwrite: the variant that overwrites whatever accumulate says.)
MergedVolumeOverwrite(old, incoming, accumulate) == incoming
\* TimeseriesDF.update_curr_bar, lines 313-317: the volume of the merged bar.
MergedVolume(old, incoming, accumulate) ==
    IF accumulate THEN PyAdd(old, incoming) ELSE incoming

\* TimeseriesDF.update_curr_bar: the last row combined with the update. The
\* row read back from the dataframe carries nan, never None, in a column the
\* dataframe has; its volume is None only when there is no volume column.
MergedBar(md, data, accumulate) ==
    LET last_bar == Last(md.df)
        shaped ==
            CASE md.data_type = "sv" /\ data.kind = "sv" ->
                   [last_bar EXCEPT !.value = data.value]
              [] md.data_type = "ohlc" /\ data.kind = "sv" ->
                   [last_bar EXCEPT !.high = PyMax(last_bar.high, data.value),
                                    !.low = PyMin(last_bar.low, data.value),
                                    !.close = data.value]
              [] md.data_type = "ohlc" /\ data.kind = "ohlc" ->
                   [last_bar EXCEPT !.high = PyMax(last_bar.high, data.high),
                                    !.low = PyMin(last_bar.low, data.low),
                                    !.close = data.close]
              [] md.data_type = "sv" /\ data.kind = "ohlc" ->
                   [last_bar EXCEPT !.value = data.close]
              [] OTHER -> last_bar
    IN IF "volume" \in md.columns /\ data.volume # NA
       THEN [shaped EXCEPT !.volume = MergedVolume(last_bar.volume, data.volume, accumulate)]
       ELSE shaped

\* (update_dataframe_append: the variant that adds the bar as a new row.)
update_dataframe_append(df, bar) == Append(df, bar)
\* update_dataframe on the update path: df.loc[time, key] = value writes every
\* row whose index label is time.
update_dataframe(df, bar) ==
    [i \in 1..Len(df) |-> IF df[i].time = bar.time THEN bar ELSE df[i]]

\* (update_curr_bar_retimed: the variant that takes the bar duration anew from
\* the update's distance to the bar before the current one.)
update_curr_bar_retimed(md, data, accumulate) ==
    IF data.kind = "ws" THEN md
    ELSE [md EXCEPT !.df = update_dataframe(md.df, MergedBar(md, data, accumulate)),
                    !.pd_tf = data.time - md.df[Len(md.df) - 1].time]
\* TimeseriesDF.update_curr_bar
update_curr_bar(md, data, accumulate) ==
    IF data.kind = "ws" THEN md
    ELSE [md EXCEPT !.df = update_dataframe(md.df, MergedBar(md, data, accumulate))]

\* (AppendDictAsGiven: the variant that stores the update's fields as given,
\* without conversion to the store's type.)
AppendDictAsGiven(md, data) == data
\* TimeseriesDF.append_new_bar: data.as_dict (the fields that are not None)
\* converted to the store's type; pd.concat adds a column for every key the
\* dataframe does not have yet.
AppendDict(md, data) ==
    CASE md.data_type = "ohlc" /\ data.kind = "sv" ->
           [data EXCEPT !.open = data.value, !.high = data.value, !.low = data.value,
                        !.close = data.value, !.value = NA]
      [] md.data_type = "sv" /\ data.kind = "ohlc" ->
           [data EXCEPT !.open = NA, !.high = NA, !.low = NA,
                        !.value = data.close, !.close = NA]
      [] OTHER -> data
DictKeys(d) ==
    {k \in {"open", "high", "low", "close", "value", "volume"} : d[k] # NA}
AppendRow(d) ==
    [time |-> d.time, open |-> d.open, high |-> d.high, low |-> d.low,
     close |-> d.close, value |-> d.value, volume |-> d.volume]
\* (append_new_bar_keeps_next: the variant that leaves next_bar_time as it was.)
append_new_bar_keeps_next(md, data) ==
    LET d == AppendDict(md, data)
    IN [md EXCEPT !.df = Append(md.df, AppendRow(d)),
                  !.columns = md.columns \cup DictKeys(d)]
append_new_bar(md, data) ==
    LET d == AppendDict(md, data)
    IN [md EXCEPT !.df = Append(md.df, AppendRow(d)),
                  !.columns = md.columns \cup DictKeys(d),
                  !.next_bar_time = next_timestamp(md.calendar, d.time, md.tf)]

\* ------------------------------------------------------------ WhitespaceDF
\* WhitespaceDF.__init__: base_data.df.index[-OVERLAP_LEN] raises IndexError
\* on a dataframe of fewer than OVERLAP_LEN rows.
WhitespaceRaises(md) == Len(md.df) < OVERLAP_LEN
WhitespaceDF(md) ==
    [ext |-> md.ext, tf |-> md.tf, calendar |-> md.calendar,
     dt_index |-> date_range(md.calendar, md.tf,
                             md.df[Len(md.df) - OVERLAP_LEN + 1].time,
                             BUFFER_LEN + OVERLAP_LEN)]

\* (WhitespaceDF_df_unsliced: the variant that hands out the whole dt_index.)
WhitespaceDF_df_unsliced(ws) == ws.dt_index
\* WhitespaceDF.df: the last BUFFER_LEN entries of dt_index.
WhitespaceDF_df(ws) ==
    SubSeq(ws.dt_index, Max(1, Len(ws.dt_index) - BUFFER_LEN + 1), Len(ws.dt_index))

\* WhitespaceDF.next_timestamp: raises ValueError before the first entry.
WhitespaceNextRaises(ws, curr_time) == curr_time < ws.dt_index[1]
WhitespaceDF_next_timestamp(ws, curr_time) ==
    IF curr_time < Last(ws.dt_index)
    THEN ws.dt_index[CHOOSE i \in 1..Len(ws.dt_index) :
                        /\ curr_time < ws.dt_index[i]
                        /\ \A j \in 1..(i - 1) : ~(curr_time < ws.dt_index[j])]
    ELSE next_timestamp(ws.calendar, Last(ws.dt_index), ws.tf)

\* DatetimeIndex.union([t]) on a sorted index: sorted, without repetition.
IndexUnion(idx, t) ==
    SelectSeq(idx, LAMBDA e : e < t) \o <<t>> \o SelectSeq(idx, LAMBDA e : e > t)

\* WhitespaceDF.extend
WhitespaceDF_extend(ws) ==
    [ws EXCEPT !.dt_index =
        IndexUnion(ws.dt_index, next_timestamp(ws.calendar, Last(ws.dt_index), ws.tf))]

\* -------------------------------------------------------------- Timeseries
VARIABLES
    primary,          \* __frame_primary_src__
    main_data,        \* Optional[TimeseriesDF]
    bar_state,        \* _bar_state: Optional[BarState]
    whitespace_data,  \* Optional[WhitespaceDF]
    notified,         \* observer notifications sent by the last call, in order
    frame_cmds,       \* commands put to the parent frame by the last call
    last_op,          \* the last call and the path it took
    last_live,        \* the last call that was a load, an append or a mutate
    last_data,        \* the data argument of the last call, when it was a set_data
    nops              \* calls made so far

\* The shared Calendars instance (CALENDARS) and the calls made on it.
VARIABLES
    mcal,             \* pandas_market_calendars is enabled (mcal is not None)
    mkt_cache,        \* Calendars.mkt_cache: the names of the cached calendars
    schedule_cache,   \* Calendars.schedule_cache: per name, the session days cached
    cal_ret,          \* the last call on the Calendars instance and its result
    pc,               \* per bar store, the step of the schedule extension it is in
    held              \* per bar store, the locals of that call

VARIABLES
    fn_ret            \* a function called on its own: its arguments, then its result

VARIABLES
    emitter           \* an events.Emitter: its fields, and what its last call did

tsvars == <<primary, main_data, bar_state, whitespace_data, notified, frame_cmds,
            last_op, last_live, last_data>>
calvars == <<mcal, mkt_cache, schedule_cache, cal_ret, pc, held>>
vars == <<primary, main_data, bar_state, whitespace_data, notified, frame_cmds,
          last_op, last_live, last_data, nops, mcal, mkt_cache, schedule_cache, cal_ret, pc, held,
          fn_ret, emitter>>

\* The bar stores that share the Calendars instance.
Stores == {1, 2}
\* Calendars.__init__ with the module as imported: mcal is None, the caches
\* are empty and no call is under way.
CalendarsInit ==
    /\ mcal = FALSE
    /\ mkt_cache = {}
    /\ schedule_cache = [c \in {} |-> << >>]
    /\ cal_ret = [op |-> "none"]
    /\ pc = [p \in Stores |-> "idle"]
    /\ held = [p \in Stores |-> None]
    /\ fn_ret = [op |-> "none"]
    /\ emitter = None

\* BarState(): the dataclass defaults.
DefaultBarState ==
    [index |-> -1, time |-> Epoch, timestamp |-> Epoch, time_close |-> Epoch,
     time_length |-> 0, open |-> NA, high |-> NA, low |-> NA, close |-> NA,
     value |-> NA, volume |-> NA, ticks |-> NA, is_ext |-> FALSE, is_new |-> FALSE,
     is_ohlc |-> FALSE, is_single_value |-> FALSE]

\* df.iloc[-1][name] if name in col_names else nan
LastField(md, name) == IF name \in md.columns THEN Last(md.df)[name] ELSE NA

\* Timeseries._init_bar_state
init_bar_state(md) ==
    [index |-> Len(md.df) - 1,
     time |-> curr_bar_open_time(md),
     timestamp |-> curr_bar_open_time(md),
     time_close |-> curr_bar_close_time(md),
     time_length |-> md.pd_tf,
     open |-> LastField(md, "open"), high |-> LastField(md, "high"),
     low |-> LastField(md, "low"), close |-> LastField(md, "close"),
     value |-> LastField(md, "value"), volume |-> LastField(md, "volume"),
     ticks |-> NA,
     is_ext |-> FALSE,
     is_new |-> TRUE,
     is_ohlc |-> "close" \in md.columns,
     is_single_value |-> "value" \in md.columns]

\* Timeseries._update_bar_state, lines 400-411: every field but is_new.
RefreshedBarState(bs, md, current_timestamp) ==
    [bs EXCEPT
        !.index = Len(md.df) - 1,
        !.time = curr_bar_open_time(md),
        !.timestamp = current_timestamp,
        !.time_close = curr_bar_close_time(md),
        !.time_length = md.pd_tf,
        !.open = LastField(md, "open"), !.high = LastField(md, "high"),
        !.low = LastField(md, "low"), !.close = LastField(md, "close"),
        !.value = LastField(md, "value"), !.volume = LastField(md, "volume"),
        !.ticks = NA]

\* (update_bar_state_keep_is_new: the variant that leaves is_new as it was.)
update_bar_state_keep_is_new(bs, md, current_timestamp, is_new) ==
    IF bs = None THEN bs ELSE RefreshedBarState(bs, md, current_timestamp)
\* Timeseries._update_bar_state
update_bar_state(bs, md, current_timestamp, is_new) ==
    IF bs = None THEN bs
    ELSE [RefreshedBarState(bs, md, current_timestamp) EXCEPT !.is_new = is_new]

\* Timeseries.bar_state (the output property)
BarStateOut == IF bar_state # None THEN bar_state ELSE DefaultBarState

Init ==
    /\ primary \in BOOLEAN
    /\ main_data = None
    /\ bar_state = None
    /\ whitespace_data = None
    /\ notified = << >>
    /\ frame_cmds = << >>
    /\ last_op = "init"
    /\ last_live = "none"
    /\ last_data = None
    /\ nops = 0
    /\ CalendarsInit

\* The part of clear_data that set_data runs first on a series that holds data.
ClearNotes == IF main_data # None THEN <<"clear">> ELSE << >>
\* (ClearCmdsAnySeries: the variant in which any series clears the frame's whitespace.)
ClearCmdsAnySeries == IF main_data # None THEN <<"clear_whitespace">> ELSE << >>
ClearCmds == IF main_data # None /\ primary THEN <<"clear_whitespace">> ELSE << >>
\* (ClearedBarStateKept: the variant that leaves the snapshot of the replaced data.)
ClearedBarStateKept == bar_state
ClearedBarState == IF main_data # None THEN None ELSE bar_state
\* (ClearedWhitespaceKept: the variant that leaves the window of the replaced data.)
ClearedWhitespaceKept == whitespace_data
ClearedWhitespace == IF main_data # None /\ primary THEN None ELSE whitespace_data
SymbolCmd == IF primary THEN <<"set_symbol">> ELSE << >>

\* (SetDataEmptyNotifies: the variant that goes on to notify the observers.)
SetDataEmptyNotifies(op) ==
    /\ main_data' = None
    /\ bar_state' = ClearedBarState
    /\ whitespace_data' = ClearedWhitespace
    /\ notified' = ClearNotes \o <<"set">>
    /\ frame_cmds' = ClearCmds \o SymbolCmd
    /\ last_op' = op
    /\ last_live' = "none"
\* Timeseries.set_data returning early or raising: no store is left.
SetDataEmpty(op) ==
    /\ main_data' = None
    /\ bar_state' = ClearedBarState
    /\ whitespace_data' = ClearedWhitespace
    /\ notified' = ClearNotes
    /\ frame_cmds' = ClearCmds \o SymbolCmd
    /\ last_op' = op
    /\ last_live' = "none"

\* Timeseries.set_data past TimeseriesDF.__init__ with a usable dataframe.
SetDataLoaded(md) ==
    /\ main_data' = md
    /\ bar_state' = init_bar_state(md)
    /\ last_live' = "load"
    /\ IF primary /\ WhitespaceRaises(md)
       THEN /\ whitespace_data' = ClearedWhitespace
            /\ notified' = ClearNotes
            /\ frame_cmds' = ClearCmds \o SymbolCmd
            /\ last_op' = "load_raise_whitespace"
       ELSE /\ whitespace_data' = IF primary THEN WhitespaceDF(md) ELSE None
            /\ notified' = ClearNotes \o <<"set">>
            /\ frame_cmds' = ClearCmds \o SymbolCmd \o
                  (IF primary THEN <<"set_whitespace", "autoscale", "set_timeframe">>
                   ELSE << >>)
            /\ last_op' = "load"

\* Timeseries.set_data
set_data(batch) ==
    /\ nops < MaxOps
    /\ nops' = nops + 1
    /\ UNCHANGED primary
    /\ UNCHANGED <<calvars, fn_ret, emitter>>
    /\ last_data' = batch
    /\ IF Len(batch.times) <= 1
       THEN SetDataEmpty("load_insufficient")
       ELSE IF standardize_names_raises(RawColumns(batch))
       THEN SetDataEmpty("load_raise_format")
       ELSE \E td \in determine_timedelta(batch.times) :
              LET md == TimeseriesDF(batch, td)
              IN IF md.tf.period = "E" \/ md.data_type = "ws"
                 THEN SetDataEmpty("load_degenerate")
                 ELSE SetDataLoaded(md)

\* Timeseries.clear_data
clear_data ==
    /\ nops < MaxOps
    /\ nops' = nops + 1
    /\ UNCHANGED primary
    /\ UNCHANGED <<calvars, fn_ret, emitter>>
    /\ last_data' = None
    /\ main_data' = None
    /\ bar_state' = None
    /\ whitespace_data' = IF primary THEN None ELSE whitespace_data
    /\ notified' = <<"clear">>
    /\ frame_cmds' = IF primary THEN <<"clear_whitespace">> ELSE << >>
    /\ last_op' = "clear"
    /\ last_live' = "none"

\* (SnapTimeAsGiven: the variant that stores the update's time as given.)
SnapTimeAsGiven(md, t) == t
\* Timeseries.update_data, lines 304-309: an update past the predicted next
\* bar time is moved back onto the grid of the store's timedelta. Python's %
\* on Timedeltas is the floored modulus.
SnapTime(md, t) ==
    IF t # md.next_bar_time THEN t - ((t - md.next_bar_time) % md.pd_tf) ELSE t

\* (IsStaleOrAtOpen: the variant that also drops an update at the open time.)
IsStaleOrAtOpen(md, t) == t <= curr_bar_open_time(md)
\* Timeseries.update_data, line 294: the update precedes the current bar.
IsStale(md, t) == t < curr_bar_open_time(md)

\* (UpdateDroppedNotifies: the variant that notifies the observers all the same.)
UpdateDroppedNotifies(op) ==
    /\ UNCHANGED <<main_data, bar_state, whitespace_data, last_live>>
    /\ notified' = <<"update">>
    /\ frame_cmds' = << >>
    /\ last_op' = op
\* Timeseries.update_data returning at once: no data, or a stale update.
UpdateDropped(op) ==
    /\ UNCHANGED <<main_data, bar_state, whitespace_data, last_live>>
    /\ notified' = << >>
    /\ frame_cmds' = << >>
    /\ last_op' = op

\* Timeseries.update_data, the aggregate branch.
UpdateMutate(data, accumulate) ==
    LET md == update_curr_bar(main_data, data, accumulate)
    IN /\ main_data' = md
       /\ bar_state' = update_bar_state(bar_state, md, data.time, FALSE)
       /\ UNCHANGED whitespace_data
       /\ notified' = <<"update">>
       /\ frame_cmds' = << >>
       /\ last_op' = "update_mutate"
       /\ last_live' = "mutate"

\* Timeseries.update_data, the append branch.
UpdateAppend(data) ==
    LET snapped == [data EXCEPT !.time = SnapTime(main_data, data.time)]
        curr_bar_time == curr_bar_open_time(main_data)
        md == append_new_bar(main_data, snapped)
        manage == primary /\ whitespace_data # None
    IN /\ main_data' = md
       /\ IF manage /\ WhitespaceNextRaises(whitespace_data, curr_bar_time)
          THEN \* ValueError out of WhitespaceDF.next_timestamp
               /\ UNCHANGED <<bar_state, whitespace_data>>
               /\ notified' = << >>
               /\ frame_cmds' = << >>
               /\ last_op' = "update_raise"
               /\ last_live' = "append"
          ELSE IF manage /\ snapped.time #
                       WhitespaceDF_next_timestamp(whitespace_data, curr_bar_time)
          THEN IF WhitespaceRaises(md)
               THEN /\ UNCHANGED <<bar_state, whitespace_data>>
                    /\ notified' = << >>
                    /\ frame_cmds' = << >>
                    /\ last_op' = "update_raise"
                    /\ last_live' = "append"
               ELSE /\ whitespace_data' = WhitespaceDF(md)
                    /\ bar_state' = update_bar_state(bar_state, md, snapped.time, TRUE)
                    /\ notified' = <<"update">>
                    /\ frame_cmds' = <<"set_whitespace">>
                    /\ last_op' = "update_append_regen"
                    /\ last_live' = "append"
          ELSE /\ whitespace_data' = IF manage THEN WhitespaceDF_extend(whitespace_data)
                                     ELSE whitespace_data
               /\ bar_state' = update_bar_state(bar_state, md, snapped.time, TRUE)
               /\ notified' = <<"update">>
               /\ frame_cmds' = IF manage THEN <<"update_whitespace">> ELSE << >>
               /\ last_op' = IF manage THEN "update_append_extend" ELSE "update_append"
               /\ last_live' = "append"

\* The timestamps an update is tried with: from before the current bar's open
\* time to past the bar after the predicted one, on and off the grid.
UpdateTimes ==
    IF main_data = None THEN {1}
    ELSE (curr_bar_open_time(main_data) - 1)..
         (main_data.next_bar_time + main_data.pd_tf + 1)

\* Timeseries.update_data
update_data(data, accumulate) ==
    /\ nops < MaxOps
    /\ nops' = nops + 1
    /\ UNCHANGED primary
    /\ UNCHANGED <<calvars, fn_ret, emitter>>
    /\ last_data' = None
    /\ IF main_data = None
       THEN UpdateDropped("update_empty")
       ELSE IF IsStale(main_data, data.time)
       THEN UpdateDropped("update_stale")
       ELSE IF data.time < main_data.next_bar_time
       THEN UpdateMutate(data, accumulate)
       ELSE UpdateAppend(data)

\* (bar_time_real_only: the variant that never reads the whitespace window.)
bar_time_real_only(index) ==
    IF main_data = None THEN Epoch
    ELSE LET df == main_data.df
             n == Len(df)
         IN IF index > n - 1 THEN df[n].time
            ELSE IF index < -(n - 1) THEN df[1].time
            ELSE IF index >= 0 THEN df[index + 1].time ELSE df[n + index + 1].time
\* Timeseries.bar_time. Past the projected span it returns the last label of
\* whitespace_data.df, a dataframe built without an index: the RangeIndex
\* label len - 1.
bar_time(index) ==
    IF main_data = None THEN Epoch
    ELSE LET df == main_data.df
             n == Len(df)
             at(i) == IF i >= 0 THEN df[i + 1].time ELSE df[n + i + 1].time
         IN IF whitespace_data # None
            THEN LET wdf == WhitespaceDF_df(whitespace_data)
                     total_len == n + Len(wdf)
                     k == (index - n) - BAR_TIME_OFFSET
                 IN IF index > total_len - 1 THEN Len(wdf) - 1
                    ELSE IF index < -(n - 1) THEN df[1].time
                    ELSE IF index < n THEN at(index)
                    ELSE IF k >= 0 THEN wdf[k + 1] ELSE wdf[Len(wdf) + k + 1]
            ELSE IF index > n - 1 THEN df[n].time
                 ELSE IF index < -(n - 1) THEN df[1].time
                 ELSE at(index)

\* TimeseriesDF.current_bar: the last row of the dataframe as an update of
\* the store's own type.
current_bar(md) ==
    LET row == Last(md.df)
    IN [kind |-> md.data_type, time |-> row.time, open |-> row.open, high |-> row.high,
        low |-> row.low, close |-> row.close, value |-> row.value, volume |-> row.volume]
\* The updates tried at time t: the given ones and, at the current bar's open
\* time, the current bar itself.
UpdatesTried(t) ==
    UpdatesAt(t) \cup
    (IF main_data # None /\ t = curr_bar_open_time(main_data)
     THEN {current_bar(main_data)} ELSE {})

Next ==
    \/ \E batch \in Batches : set_data(batch)
    \/ \E t \in UpdateTimes : \E data \in UpdatesTried(t) :
       \E accumulate \in Accumulates(data) :
          update_data(data, accumulate)
    \/ clear_data

Spec == Init /\ [][Next]_vars

\* The bar store given batches whose last record is not the latest: a regular
\* run followed by one earlier record, as long as the window's overlap and
\* one record longer.
LateRun(n) == [i \in 1..n |-> 5 + (i - 1) * RunStride]
UnsortedBatches ==
    [times : {LateRun(OVERLAP_LEN - 1) \o <<2>>, LateRun(OVERLAP_LEN) \o <<2>>,
              LateRun(OVERLAP_LEN) \o <<8>>},
     shape : {"ohlcv", "sv"}, fmt : {"ok"}]

NextUnsorted ==
    \/ \E batch \in UnsortedBatches : set_data(batch)
    \/ \E t \in UpdateTimes : \E data \in UpdatesTried(t) :
       \E accumulate \in Accumulates(data) :
          update_data(data, accumulate)
    \/ clear_data

SpecUnsorted == Init /\ [][NextUnsorted]_vars

\* ------------------------------------ Calendars with market calendars enabled
\* pandas_market_calendars, as far as Calendars uses it. A calendar's sessions
\* are the weekdays, open from MARKET_OPEN to MARKET_CLOSE (minutes of the day).
MARKET_OPEN == 570
MARKET_CLOSE == 960
\* pd.Timedelta("16W"), in days
EXPAND_DAYS == 112
\* for _ in range(3)
LTF_TRIES == 3

\* The exchange arguments request_calendar is called with; NoExchange is None.
NoExchange == "<None>"
Exchanges == {NoExchange, "NYSE", "nyse", "Forex", "xnas", "XNAS", "crypto", "bogus"}
\* str.lower
Lower(name) ==
    CASE name = "NYSE" -> "nyse"
      [] name = "Forex" -> "forex"
      [] name = "XNAS" -> "xnas"
      [] OTHER -> name
\* mcal.get_calendar_names(): the registry holds one name, XNAS, that is also
\* an alternate name.
CalendarNames == {"NYSE", "NASDAQ", "24/5", "24/7", "XNAS"}
\* EXCHANGE_NAMES: lower-cased name -> name (empty until enabled).
EXCHANGE_NAMES == [n \in {"nyse", "nasdaq", "24/5", "24/7", "xnas"} |->
                      CASE n = "nyse" -> "NYSE" [] n = "nasdaq" -> "NASDAQ"
                        [] n = "xnas" -> "XNAS" [] OTHER -> n]
\* ALT_EXCHANGE_NAMES (empty until enabled).
ALT_EXCHANGE_NAMES == [n \in {"xnas", "arca", "forex", "crypto"} |->
                          CASE n = "xnas" -> "NASDAQ" [] n = "arca" -> "NYSE"
                            [] n = "forex" -> "24/5" [] OTHER -> "24/7"]
\* mcal.get_calendar(name).name: NASDAQ is an alias of the NYSE calendar.
get_calendar(name) == IF name = "NASDAQ" THEN "NYSE" ELSE name
\* The tokens of the calendars that keep a schedule.
RealCalendars == {"NYSE", "24/5", "XNAS"}

IsSession(d) == Weekday(d) < 5
\* MarketCalendar.schedule(start, end): the session days from start to end.
schedule(a, b) ==
    IF b < a THEN << >>
    ELSE SelectSeq([i \in 1..(b - a + 1) |-> a + i - 1], IsSession)
SeqSet(seq) == {seq[i] : i \in 1..Len(seq)}

\* (ResolveCalendarPrimaryFirst: the variant that looks in EXCHANGE_NAMES first.)
ResolveCalendarPrimaryFirst(enabled, exchange) ==
    IF ~enabled \/ exchange = NoExchange THEN "24/7"
    ELSE LET e == Lower(exchange)
         IN IF e \in DOMAIN EXCHANGE_NAMES THEN get_calendar(EXCHANGE_NAMES[e])
            ELSE IF e \in DOMAIN ALT_EXCHANGE_NAMES THEN get_calendar(ALT_EXCHANGE_NAMES[e])
            ELSE "24/7"
\* Calendars.request_calendar, lines 133-148: the calendar an exchange name
\* resolves to; "24/7" when there is none.
ResolveCalendar(enabled, exchange) ==
    IF ~enabled \/ exchange = NoExchange THEN "24/7"
    ELSE LET e == Lower(exchange)
         IN IF e \in DOMAIN ALT_EXCHANGE_NAMES THEN get_calendar(ALT_EXCHANGE_NAMES[e])
            ELSE IF e \in DOMAIN EXCHANGE_NAMES THEN get_calendar(EXCHANGE_NAMES[e])
            ELSE "24/7"

\* (ExtendedScheduleReplaced: the variant that caches the requested window only.)
ExtendedScheduleReplaced(sched, start, end) == schedule(start, end)
\* Calendars.request_calendar, lines 162-171: the cached schedule extended to
\* the padded window start..end (days), on the sides that are short.
ExtendedSchedule(sched, start, end) ==
    LET front == IF sched[1] > start
                 THEN schedule(start, sched[1] - 1) \o sched ELSE sched
    IN IF Last(front) < end
       THEN front \o schedule(Last(front) + 1, end) ELSE front

\* Calendars.request_calendar, lines 162-171: the calls of cal.schedule made
\* to extend a cached schedule to the padded window start..end.
ScheduleBuilds(sched, start, end) ==
    (IF sched[1] > start THEN 1 ELSE 0) + (IF Last(sched) < end THEN 1 ELSE 0)

\* Calendars.request_calendar: the token and the caches afterwards, and the
\* number of schedules it had the calendar build.
RequestCalendar(exchange, start, end) ==
    LET name == ResolveCalendar(mcal, exchange)
        s == start - WEEK
        e == end + WEEK
    IN IF name = "24/7"
       THEN [token |-> "24/7", mkt |-> mkt_cache, sched |-> schedule_cache,
             built |-> 0]
       ELSE IF name \notin mkt_cache
       THEN [token |-> name, mkt |-> mkt_cache \cup {name},
             sched |-> [schedule_cache EXCEPT ![name] = schedule(s, e)],
             built |-> 1]
       ELSE [token |-> name, mkt |-> mkt_cache,
             sched |-> [schedule_cache EXCEPT
                           ![name] = ExtendedSchedule(schedule_cache[name], s, e)],
             built |-> ScheduleBuilds(schedule_cache[name], s, e)]

\* mcal.date_range(schedule, freq, "left", ..., start=, periods=): the bars of
\* a session open at MARKET_OPEN + k * td before MARKET_CLOSE.
BarsPerDay(td) == ((MARKET_CLOSE - MARKET_OPEN - 1) \div td) + 1
BarsOnDayFrom(td, t) ==
    LET tod == TimeOfDay(t)
        skipped == IF tod <= MARKET_OPEN THEN 0 ELSE ((tod - MARKET_OPEN - 1) \div td) + 1
    IN Max(0, BarsPerDay(td) - skipped)
BarsFrom(sched, td, t) ==
    Cardinality({d \in SeqSet(sched) : d > DayOf(t)}) * BarsPerDay(td)
    + (IF DayOf(t) \in SeqSet(sched) THEN BarsOnDayFrom(td, t) ELSE 0)
\* The first bar at or after t, given that there is one.
NextBar(sched, td, t) ==
    IF DayOf(t) \in SeqSet(sched) /\ BarsOnDayFrom(td, t) > 0
    THEN DayOf(t) * DAY + MARKET_OPEN + (BarsPerDay(td) - BarsOnDayFrom(td, t)) * td
    ELSE (CHOOSE d \in SeqSet(sched) :
             d > DayOf(t) /\ \A o \in SeqSet(sched) : o > DayOf(t) => d <= o) * DAY
         + MARKET_OPEN
\* The days the insufficient schedule error asks for at the end: the first
\* missing day, or ("exact") as many days as the missing bars take.
MissingDays(sched, td, t, periods, est) ==
    IF est = "exact"
    THEN ((periods - BarsFrom(sched, td, t)) \div BarsPerDay(td)) + 1
    ELSE 1

\* mcal.date_range raises the insufficient schedule error.
LtfShort(sched, td, start, periods) ==
    DayOf(start) < sched[1] \/ BarsFrom(sched, td, start) < periods
\* Calendars._date_range_ltf, lines 115-124: the schedule read at line 104
\* with the missing days added in front or (with EXPAND_DAYS more) at the end.
LtfExtendOnce(sched, td, start, periods, est) ==
    IF DayOf(start) < sched[1]
    THEN schedule(DayOf(start), sched[1] - 1) \o sched
    ELSE sched \o schedule(Last(sched) + 1,
                           Last(sched) + MissingDays(sched, td, start, periods, est)
                               + EXPAND_DAYS)
\* (LtfExhaustedLate: the variant that allows one attempt more.)
LtfExhaustedLate(tries) == tries = -1
\* Calendars._date_range_ltf, lines 102 and 126: the loop has run out.
LtfExhausted(tries) == tries = 0
\* Calendars._date_range_ltf: up to LTF_TRIES attempts, each failure extending
\* the cached schedule on the side that is short. The schedule afterwards,
\* whether the call raised, the attempts left, and the first two entries of
\* the range.
RECURSIVE date_range_ltf(_, _, _, _, _, _)
date_range_ltf(sched, td, start, periods, est, tries) ==
    IF LtfExhausted(tries)
    THEN [sched |-> sched, raised |-> TRUE, left |-> tries, first |-> 0, second |-> 0]
    ELSE IF LtfShort(sched, td, start, periods)
    THEN date_range_ltf(LtfExtendOnce(sched, td, start, periods, est),
                        td, start, periods, est, tries - 1)
    ELSE LET first == NextBar(sched, td, start)
         IN [sched |-> sched, raised |-> FALSE, left |-> tries - 1, first |-> first,
             second |-> IF periods >= 2 THEN NextBar(sched, td, first + 1) ELSE first]

\* MarketCalendar.open_at_time: ValueError outside the schedule's days.
Covered(sched, t) == sched[1] <= DayOf(t) /\ DayOf(t) <= Last(sched)
open_at_time(sched, t) ==
    /\ DayOf(t) \in SeqSet(sched)
    /\ MARKET_OPEN <= TimeOfDay(t)
    /\ TimeOfDay(t) < MARKET_CLOSE

\* MarketCalendar.date_range_htf(freq, start, periods=2) followed by
\* schedule_from_days(...)[time].iloc[-1]: the open of the second period at or
\* after start; a period starts on the first session at or after its anchor
\* (every day for "D").
FirstSession(d) == CHOOSE a \in d..(d + 6) : IsSession(a) /\ \A b \in d..(a - 1) : ~IsSession(b)
RECURSIVE SessionsOn(_, _)
SessionsOn(d, n) == IF n = 0 THEN d ELSE SessionsOn(FirstSession(d + 1), n - 1)
HtfSecondOpen(current_time, tf) ==
    (IF tf.period = "D"
     THEN SessionsOn(FirstSession(DayOf(current_time)), tf.mult)
     ELSE FirstSession(AnchorsOn(tf.period,
                                 RollForward(tf.period, DayOf(current_time)), tf.mult))) * DAY
    + MARKET_OPEN

\* The calls made on the shared Calendars instance: the windows (days) that
\* request_calendar is asked for, the times, timeframes and range lengths.
RequestWindows == {<<30, 34>>, <<50, 54>>, <<16, 20>>, <<16, 54>>}
CallTimes == {20 * DAY + 600, 31 * DAY + MARKET_OPEN, 41 * DAY + 940, 44 * DAY}
CallTFs == {[mult |-> 1, period |-> "h"], [mult |-> 1, period |-> "D"],
            [mult |-> 2, period |-> "W"], [mult |-> 1, period |-> "M"],
            [mult |-> 1, period |-> "Q"], [mult |-> 1, period |-> "Y"]}
\* The timeframes date_range is called with: 7 and 2 bars to a session.
RangeTFs == {[mult |-> 1, period |-> "h"], [mult |-> 4, period |-> "h"]}
CallPeriods == {2, BUFFER_LEN + OVERLAP_LEN}
Estimates == {"first", "exact"}

\* No bar store is inside a call on the Calendars instance.
AllIdle == \A p \in Stores : pc[p] = "idle"

\* enable_market_calendars
enable_market_calendars ==
    /\ AllIdle
    /\ ~mcal
    /\ mcal' = TRUE
    /\ cal_ret' = [op |-> "enable"]
    /\ UNCHANGED <<tsvars, fn_ret, emitter, nops, mkt_cache, schedule_cache, pc, held>>

\* Calendars.request_calendar, as one call.
request_calendar_call(exchange, start, end) ==
    /\ AllIdle
    /\ nops < MaxCalOps
    /\ nops' = nops + 1
    /\ LET r == RequestCalendar(exchange, start, end)
       IN /\ mkt_cache' = r.mkt
          /\ schedule_cache' = r.sched
          /\ cal_ret' = [op |-> "request_calendar", exchange |-> exchange,
                         start |-> start, end |-> end, built |-> r.built,
                         ret |-> r.token, raised |-> FALSE]
    /\ UNCHANGED <<tsvars, fn_ret, emitter, mcal, pc, held>>

\* Calendars.next_timestamp, as one call, for a token request_calendar gave.
next_timestamp_call(calendar, current_time, tf, est) ==
    /\ AllIdle
    /\ nops < MaxCalOps
    /\ nops' = nops + 1
    /\ calendar \in mkt_cache \cup {"24/7"}
    /\ LET next_time == NextTime(current_time, tf)
           done(ret, raised) ==
               cal_ret' = [op |-> "next_timestamp", calendar |-> calendar,
                           current_time |-> current_time, tf |-> tf,
                           ret |-> ret, raised |-> raised]
       IN IF calendar = "24/7"
          THEN done(next_timestamp(calendar, current_time, tf), FALSE)
               /\ UNCHANGED schedule_cache
          ELSE IF TF_as_timedelta(tf) < DAY
          THEN LET sched == schedule_cache[calendar]
               IN IF Covered(sched, next_time) /\ open_at_time(sched, next_time)
                  THEN done(next_time, FALSE) /\ UNCHANGED schedule_cache
                  ELSE LET r == date_range_ltf(sched, TF_as_timedelta(tf), current_time,
                                               2, est, LTF_TRIES)
                       IN /\ done(r.second, r.raised)
                          /\ schedule_cache' = [schedule_cache EXCEPT ![calendar] = r.sched]
          ELSE done(HtfSecondOpen(current_time, tf), FALSE) /\ UNCHANGED schedule_cache
    /\ UNCHANGED <<tsvars, fn_ret, emitter, mcal, mkt_cache, pc, held>>

\* Calendars.date_range, as one call; freq is a TF or (as_td) a pd.Timedelta.
date_range_call(calendar, tf, as_td, start, periods, est) ==
    /\ AllIdle
    /\ nops < MaxCalOps
    /\ nops' = nops + 1
    /\ LET done(kind, first, raised, attempts) ==
               cal_ret' = [op |-> "date_range", kind |-> kind, calendar |-> calendar,
                           td |-> TF_as_timedelta(tf), as_td |-> as_td,
                           start |-> start,
                           periods |-> periods, attempts |-> attempts,
                           ret |-> first, raised |-> raised]
       IN IF calendar = "24/7"
          THEN done("24/7", date_range(calendar, tf, start, 2)[1], FALSE, 0)
               /\ UNCHANGED schedule_cache
          ELSE IF calendar \notin mkt_cache
          THEN done("not_loaded", 0, TRUE, 0) /\ UNCHANGED schedule_cache
          ELSE IF as_td
          THEN LET r == date_range_ltf(schedule_cache[calendar], TF_as_timedelta(tf),
                                       start, periods, est, LTF_TRIES)
               IN /\ done("ltf", r.first, r.raised, LTF_TRIES - r.left)
                  /\ schedule_cache' = [schedule_cache EXCEPT ![calendar] = r.sched]
          ELSE done("htf", 0, FALSE, 0) /\ UNCHANGED schedule_cache
    /\ UNCHANGED <<tsvars, fn_ret, emitter, mcal, mkt_cache, pc, held>>

\* The Calendars instance on its own: a series that holds no data, and calls
\* made one after the other.
InitCal ==
    /\ primary = FALSE
    /\ main_data = None
    /\ bar_state = None
    /\ whitespace_data = None
    /\ notified = << >>
    /\ frame_cmds = << >>
    /\ last_op = "init"
    /\ last_live = "none"
    /\ last_data = None
    /\ nops = 0
    /\ mcal = FALSE
    /\ mkt_cache = {}
    /\ schedule_cache = [c \in RealCalendars |-> << >>]
    /\ cal_ret = [op |-> "none"]
    /\ pc = [p \in Stores |-> "idle"]
    /\ held = [p \in Stores |-> None]
    /\ fn_ret = [op |-> "none"]
    /\ emitter = None

NextCal ==
    \/ enable_market_calendars
    \/ \E exchange \in Exchanges : \E w \in RequestWindows :
          request_calendar_call(exchange, w[1], w[2])
    \/ \E calendar \in RealCalendars \cup {"24/7"} : \E t \in CallTimes :
       \E tf \in CallTFs : \E est \in Estimates :
          next_timestamp_call(calendar, t, tf, est)
    \/ \E calendar \in RealCalendars \cup {"24/7"} : \E t \in CallTimes :
       \E tf \in RangeTFs : \E as_td \in BOOLEAN :
       \E periods \in CallPeriods : \E est \in Estimates :
          date_range_call(calendar, tf, as_td, t, periods, est)

SpecCal == InitCal /\ [][NextCal]_vars

\* ---------------------------------------- bar stores sharing the Calendars
\* Calendars.request_calendar by bar store p, up to its first write or read of
\* the caches: line 156 for a calendar that is not cached, line 163 (KeyError
\* when the schedule is not there yet) for one that is.
request_begin(p, exchange, start, end) ==
    /\ pc[p] = "idle"
    /\ nops < MaxCalOps
    /\ nops' = nops + 1
    /\ LET name == ResolveCalendar(mcal, exchange)
       IN /\ name # "24/7"
          /\ IF name \notin mkt_cache
             THEN /\ mkt_cache' = mkt_cache \cup {name}
                  /\ pc' = [pc EXCEPT ![p] = "request_new"]
                  /\ held' = [held EXCEPT ![p] = [name |-> name, sched |-> << >>,
                                                  start |-> start - WEEK,
                                                  end |-> end + WEEK]]
                  /\ UNCHANGED cal_ret
             ELSE IF schedule_cache[name] = << >>
             THEN /\ cal_ret' = [op |-> "request_calendar", exchange |-> exchange,
                                 ret |-> "KeyError", raised |-> TRUE]
                  /\ UNCHANGED <<mkt_cache, pc, held>>
             ELSE /\ pc' = [pc EXCEPT ![p] = "request_cached"]
                  /\ held' = [held EXCEPT ![p] = [name |-> name,
                                                  sched |-> schedule_cache[name],
                                                  start |-> start - WEEK,
                                                  end |-> end + WEEK]]
                  /\ UNCHANGED <<mkt_cache, cal_ret>>
    /\ UNCHANGED <<tsvars, fn_ret, emitter, mcal, schedule_cache>>

\* Calendars.request_calendar by bar store p: the write of the schedule, line
\* 158 or line 174 (only when a side was short).
request_end(p) ==
    /\ pc[p] \in {"request_new", "request_cached"}
    /\ LET h == held[p]
           new == IF pc[p] = "request_new" THEN schedule(h.start, h.end)
                  ELSE ExtendedSchedule(h.sched, h.start, h.end)
       IN /\ schedule_cache' = IF pc[p] = "request_cached" /\ new = h.sched
                               THEN schedule_cache
                               ELSE [schedule_cache EXCEPT ![h.name] = new]
          /\ cal_ret' = [op |-> "request_calendar", exchange |-> h.name,
                         ret |-> h.name, raised |-> FALSE]
    /\ pc' = [pc EXCEPT ![p] = "idle"]
    /\ held' = [held EXCEPT ![p] = None]
    /\ UNCHANGED <<tsvars, fn_ret, emitter, nops, mcal, mkt_cache>>

\* Calendars._date_range_ltf by bar store p, reached from next_timestamp: the
\* read of the schedule at line 104, the error out of mcal.date_range and the
\* schedule of the missing days (line 120).
ltf_begin(p, calendar, start, tf, est) ==
    /\ pc[p] = "idle"
    /\ nops < MaxCalOps
    /\ nops' = nops + 1
    /\ calendar \in mkt_cache
    /\ schedule_cache[calendar] # << >>
    /\ LtfShort(schedule_cache[calendar], TF_as_timedelta(tf), start, 2)
    /\ pc' = [pc EXCEPT ![p] = "ltf_retry"]
    /\ held' = [held EXCEPT ![p] =
                   [name |-> calendar,
                    sched |-> LtfExtendOnce(schedule_cache[calendar], TF_as_timedelta(tf),
                                            start, 2, est)]]
    /\ UNCHANGED <<tsvars, fn_ret, emitter, mcal, mkt_cache, schedule_cache, cal_ret>>

\* Calendars._date_range_ltf by bar store p: the write at line 122 or 124.
ltf_end(p) ==
    /\ pc[p] = "ltf_retry"
    /\ schedule_cache' = [schedule_cache EXCEPT ![held[p].name] = held[p].sched]
    /\ cal_ret' = [op |-> "date_range_ltf", ret |-> held[p].name, raised |-> FALSE]
    /\ pc' = [pc EXCEPT ![p] = "idle"]
    /\ held' = [held EXCEPT ![p] = None]
    /\ UNCHANGED <<tsvars, fn_ret, emitter, nops, mcal, mkt_cache>>

\* Market calendars are enabled and one store has requested the NYSE calendar.
InitConc ==
    /\ primary = FALSE
    /\ main_data = None
    /\ bar_state = None
    /\ whitespace_data = None
    /\ notified = << >>
    /\ frame_cmds = << >>
    /\ last_op = "init"
    /\ last_live = "none"
    /\ last_data = None
    /\ nops = 0
    /\ mcal = TRUE
    /\ mkt_cache = {"NYSE"}
    /\ schedule_cache = [c \in RealCalendars |->
                            IF c = "NYSE" THEN schedule(30 - WEEK, 34 + WEEK) ELSE << >>]
    /\ cal_ret = [op |-> "request_calendar", exchange |-> "NYSE",
                  ret |-> "NYSE", raised |-> FALSE]
    /\ pc = [p \in Stores |-> "idle"]
    /\ held = [p \in Stores |-> None]
    /\ fn_ret = [op |-> "none"]
    /\ emitter = None

NextConc ==
    \/ \E p \in Stores : \E exchange \in {"NYSE", "Forex"} : \E w \in RequestWindows :
          request_begin(p, exchange, w[1], w[2])
    \/ \E p \in Stores : request_end(p)
    \/ \E p \in Stores : \E t \in CallTimes : \E est \in Estimates :
          ltf_begin(p, "NYSE", t, [mult |-> 1, period |-> "h"], est)
    \/ \E p \in Stores : ltf_end(p)

SpecConc == InitConc /\ [][NextConc]_vars

\* ------------------------------------------- determine_timedelta on its own
\* A series of timestamps from 0: an optional first difference lead (0: none),
\* then n1 differences of s1, then n2 differences of s2.
Leads == 0..3
Strides == 1..3
RunLens == {1, 2, 3, TD_WINDOW - 2, TD_WINDOW - 1, TD_WINDOW}
TailLens == {0, 1, TD_WINDOW + 10}
SeriesInputs == [op : {"series"}, lead : Leads, s1 : Strides, n1 : RunLens,
                 s2 : Strides, n2 : TailLens]
LeadCount(in) == IF in.lead # 0 THEN 1 ELSE 0
StrideSeries(in) ==
    [i \in 1..(1 + LeadCount(in) + in.n1 + in.n2) |->
        LET k == i - 1
        IN (IF k >= 1 THEN in.lead ELSE 0)
           + in.s1 * Min(Max(k - LeadCount(in), 0), in.n1)
           + in.s2 * Max(k - LeadCount(in) - in.n1, 0)]

\* TimeseriesDF.__init__, lines 170-171: the timedelta and the timeframe
\* inferred for a series.
determine_timedelta_call ==
    /\ fn_ret.op = "series"
    /\ \E td \in determine_timedelta(StrideSeries(fn_ret)) :
          fn_ret' = [op |-> "determine_timedelta", lead |-> fn_ret.lead,
                     s1 |-> fn_ret.s1, n1 |-> fn_ret.n1, s2 |-> fn_ret.s2,
                     n2 |-> fn_ret.n2, ret |-> td, tf |-> TF_from_timedelta(td)]
    /\ UNCHANGED <<tsvars, nops, calvars, emitter>>

InitTd ==
    /\ primary = FALSE
    /\ main_data = None
    /\ bar_state = None
    /\ whitespace_data = None
    /\ notified = << >>
    /\ frame_cmds = << >>
    /\ last_op = "init"
    /\ last_live = "none"
    /\ last_data = None
    /\ nops = 0
    /\ mcal = FALSE
    /\ mkt_cache = {}
    /\ schedule_cache = [c \in RealCalendars |-> << >>]
    /\ cal_ret = [op |-> "none"]
    /\ pc = [p \in Stores |-> "idle"]
    /\ held = [p \in Stores |-> None]
    /\ fn_ret \in SeriesInputs
    /\ emitter = None

NextTd == determine_timedelta_call

SpecTd == InitTd /\ [][NextTd]_vars

\* ------------------------------------------------- _mark_ext on its own
\* EXT_MAP: the integer encoding of the trading hours sessions.
EXT_MAP == [pre |-> 1, rth |-> 0, post |-> 2, closed |-> -1]
\* The calendar's extended hours: pre-market from 04:00, post-market to 20:00.
PRE_OPEN == 240
POST_CLOSE == 1200
\* mcal.mark_session(schedule, time_index, label_map=EXT_MAP, closed="left")
\* for one timestamp the schedule covers.
SessionLabel(t) ==
    IF ~IsSession(DayOf(t)) THEN EXT_MAP.closed
    ELSE IF TimeOfDay(t) >= MARKET_OPEN /\ TimeOfDay(t) < MARKET_CLOSE THEN EXT_MAP.rth
    ELSE IF TimeOfDay(t) >= PRE_OPEN /\ TimeOfDay(t) < MARKET_OPEN THEN EXT_MAP.pre
    ELSE IF TimeOfDay(t) >= MARKET_CLOSE /\ TimeOfDay(t) < POST_CLOSE THEN EXT_MAP.post
    ELSE EXT_MAP.closed
\* Calendars.mark_session: None, or the session label of every timestamp.
Calendars_mark_session(enabled, calendar, time_index) ==
    IF ~enabled \/ calendar = "24/7" THEN None
    ELSE [i \in 1..Len(time_index) |-> SessionLabel(time_index[i])]
\* Calendars.session_at_time
session_at_time(enabled, calendar, dt) ==
    IF ~enabled \/ calendar = "24/7" THEN None ELSE SessionLabel(dt)

\* TimeseriesDF._mark_ext, lines 243-253: the "rth" column afterwards (None:
\* the dataframe has none). rth is the column given (NA where a row has no
\* label), or None.
MarkedRth(enabled, calendar, times, rth) ==
    LET rth_col == Calendars_mark_session(enabled, calendar, times)
    IN IF rth # None
       THEN IF rth_col # None
            THEN [i \in 1..Len(times) |-> IF rth[i] = NA THEN rth_col[i] ELSE rth[i]]
            ELSE rth
       ELSE rth_col
\* (ExtOfRthAny: the variant that asks for one regular-session row only.)
ExtOfRthAny(col) ==
    IF col = None THEN "None"
    ELSE IF \E i \in 1..Len(col) : col[i] = 0 THEN "False"
    ELSE "True"
\* TimeseriesDF._mark_ext, lines 255-265: the flag for the "rth" column.
ExtOfRth(col) ==
    IF col = None THEN "None"
    ELSE IF \A i \in 1..Len(col) : col[i] = 0 THEN "False"
    ELSE "True"

\* The rows _mark_ext is tried on: two timestamps in or out of the sessions,
\* with no "rth" column or one whose entries are a label or missing, of a
\* "24/7" or a cached NYSE calendar.
ExtTimes == {32 * DAY + 600, 32 * DAY + 300, 32 * DAY + 1000, 44 * DAY + 600}
RthGiven == {None} \cup [1..2 -> {NA, EXT_MAP.rth, EXT_MAP.pre}]
ExtInputs ==
    {in \in [op : {"rows"}, times : [1..2 -> ExtTimes], rth : RthGiven,
             enabled : BOOLEAN, calendar : {"24/7", "NYSE"}] :
        in.calendar # "24/7" => in.enabled}

\* TimeseriesDF._mark_ext
mark_ext_call ==
    /\ fn_ret.op = "rows"
    /\ LET col == MarkedRth(fn_ret.enabled, fn_ret.calendar, fn_ret.times, fn_ret.rth)
       IN fn_ret' = [op |-> "mark_ext", times |-> fn_ret.times, rth |-> fn_ret.rth,
                     enabled |-> fn_ret.enabled, calendar |-> fn_ret.calendar,
                     session |-> Calendars_mark_session(fn_ret.enabled, fn_ret.calendar,
                                                        fn_ret.times),
                     col |-> col, ext |-> ExtOfRth(col)]
    /\ UNCHANGED <<tsvars, nops, calvars, emitter>>

\* Calendars.session_at_time for the first of the timestamps.
session_at_time_call ==
    /\ fn_ret.op = "rows"
    /\ fn_ret' = [op |-> "session_at_time", times |-> fn_ret.times,
                  enabled |-> fn_ret.enabled, calendar |-> fn_ret.calendar,
                  ret |-> session_at_time(fn_ret.enabled, fn_ret.calendar, fn_ret.times[1])]
    /\ UNCHANGED <<tsvars, nops, calvars, emitter>>

InitExt ==
    /\ primary = FALSE
    /\ main_data = None
    /\ bar_state = None
    /\ whitespace_data = None
    /\ notified = << >>
    /\ frame_cmds = << >>
    /\ last_op = "init"
    /\ last_live = "none"
    /\ last_data = None
    /\ nops = 0
    /\ mcal = FALSE
    /\ mkt_cache = {}
    /\ schedule_cache = [c \in RealCalendars |-> << >>]
    /\ cal_ret = [op |-> "none"]
    /\ pc = [p \in Stores |-> "idle"]
    /\ held = [p \in Stores |-> None]
    /\ fn_ret \in ExtInputs
    /\ emitter = None

NextExt ==
    \/ mark_ext_call
    \/ session_at_time_call

SpecExt == InitExt /\ [][NextExt]_vars

\* ------------------------------------------------------------ events.Emitter
\* The callables given to an Emitter: two blocking functions and two coroutine
\* functions.
Responders == {"block_1", "block_2", "coro_1", "coro_2"}
\* inspect.iscoroutinefunction
iscoroutinefunction(func) == func \in {"coro_1", "coro_2"}

\* Emitter.__iadd__ and Emitter.append: the list after adding func.
Appended(funcs, single_emitter, func) ==
    IF func \in SeqSet(funcs) THEN funcs
    ELSE (IF single_emitter THEN << >> ELSE funcs) \o <<func>>
\* list.remove: the list without its first occurrence of func.
Removed(funcs, func) ==
    LET i == CHOOSE k \in 1..Len(funcs) :
                 funcs[k] = func /\ \A j \in 1..(k - 1) : funcs[j] # func
    IN SubSeq(funcs, 1, i - 1) \o SubSeq(funcs, i + 1, Len(funcs))

\* Emitter.__call__, from the i-th responder on: the blocking functions called,
\* the tasks created for the coroutine functions, and the responses handed to
\* rsp_handler, each in order. A blocking responder on an Emitter without
\* rsp_handler ends the call (return inside the loop).
RECURSIVE EmitFrom(_, _, _, _)
EmitFrom(funcs, i, has_handler, done) ==
    IF i > Len(funcs) THEN done
    ELSE IF iscoroutinefunction(funcs[i])
    THEN EmitFrom(funcs, i + 1, has_handler,
                  [done EXCEPT !.tasks = Append(@, funcs[i])])
    ELSE IF ~has_handler
    THEN [done EXCEPT !.called = Append(@, funcs[i])]
    ELSE EmitFrom(funcs, i + 1, has_handler,
                  [done EXCEPT !.called = Append(@, funcs[i]),
                               !.responded = Append(@, funcs[i])])
NothingEmitted == [called |-> << >>, tasks |-> << >>, responded |-> << >>]

\* The Emitter after a call: its list, and what the call did.
EmitterAfter(op, func, funcs, emitted) ==
    [emitter EXCEPT !.funcs = funcs, !.last = op, !.nops = @ + 1,
                    !.added = IF op \in {"iadd", "append"} THEN func ELSE @,
                    !.called = emitted.called, !.tasks = emitted.tasks,
                    !.responded = emitted.responded]

\* Emitter.__iadd__
Emitter_iadd(func) ==
    /\ emitter # None
    /\ emitter.nops < MaxEmitOps
    /\ emitter' = EmitterAfter("iadd", func,
                               Appended(emitter.funcs, emitter.single_emitter, func),
                               NothingEmitted)
    /\ UNCHANGED <<tsvars, nops, calvars, fn_ret>>
\* Emitter.append
Emitter_append(func) ==
    /\ emitter # None
    /\ emitter.nops < MaxEmitOps
    /\ emitter' = EmitterAfter("append", func,
                               Appended(emitter.funcs, emitter.single_emitter, func),
                               NothingEmitted)
    /\ UNCHANGED <<tsvars, nops, calvars, fn_ret>>
\* Emitter.__isub__
Emitter_isub(func) ==
    /\ emitter # None
    /\ emitter.nops < MaxEmitOps
    /\ emitter' = EmitterAfter("isub", func,
                               IF func \in SeqSet(emitter.funcs)
                               THEN Removed(emitter.funcs, func) ELSE emitter.funcs,
                               NothingEmitted)
    /\ UNCHANGED <<tsvars, nops, calvars, fn_ret>>
\* Emitter.__call__; the tasks it creates run the coroutine functions after it
\* has returned.
Emitter_call ==
    /\ emitter # None
    /\ emitter.nops < MaxEmitOps
    /\ emitter' = EmitterAfter("call", "none", emitter.funcs,
                               IF Len(emitter.funcs) = 0 THEN NothingEmitted
                               ELSE EmitFrom(emitter.funcs, 1, emitter.rsp_handler,
                                             NothingEmitted))
    /\ UNCHANGED <<tsvars, nops, calvars, fn_ret>>

\* Emitter.__init__, with and without rsp_handler, single_emit True and False.
InitEmit ==
    /\ primary = FALSE
    /\ main_data = None
    /\ bar_state = None
    /\ whitespace_data = None
    /\ notified = << >>
    /\ frame_cmds = << >>
    /\ last_op = "init"
    /\ last_live = "none"
    /\ last_data = None
    /\ nops = 0
    /\ mcal = FALSE
    /\ mkt_cache = {}
    /\ schedule_cache = [c \in RealCalendars |-> << >>]
    /\ cal_ret = [op |-> "none"]
    /\ pc = [p \in Stores |-> "idle"]
    /\ held = [p \in Stores |-> None]
    /\ fn_ret = [op |-> "none"]
    /\ emitter \in [single_emitter : BOOLEAN, rsp_handler : BOOLEAN, funcs : {<< >>},
                     last : {"init"}, nops : {0}, added : {"none"},
                     called : {<< >>}, tasks : {<< >>}, responded : {<< >>}]

NextEmit ==
    \/ \E func \in Responders : Emitter_iadd(func)
    \/ \E func \in Responders : Emitter_append(func)
    \/ \E func \in Responders : Emitter_isub(func)
    \/ Emitter_call

SpecEmit == InitEmit /\ [][NextEmit]_vars

\* ------------------------------------------------------------------ claims
Loaded == main_data # None
Rows == main_data.df
OpenTime == curr_bar_open_time(main_data)
\* The next state was reached by a call of update_data.
ByUpdate == last_op' \in {"update_empty", "update_stale", "update_mutate", "update_raise",
                          "update_append", "update_append_extend", "update_append_regen"}

\* C1: for a loaded store and an update whose time is strictly before the
\* predicted next-bar time, update_data leaves the row count, every row but
\* the last and the last row's timestamp as they were.
C1_MutateKeepsEarlierRows ==
    [][\A t \in UpdateTimes : \A data \in UpdatesAt(t) : \A acc \in Accumulates(data) :
         (Loaded /\ ByUpdate /\ data.time < main_data.next_bar_time
          /\ update_data(data, acc))
         => /\ main_data' # None
            /\ Len(main_data'.df) = Len(Rows)
            /\ \A i \in 1..(Len(Rows) - 1) : main_data'.df[i] = Rows[i]
            /\ Last(main_data'.df).time = OpenTime]_vars

\* C2: for a loaded store and an update whose time is at or after the
\* predicted next-bar time, update_data adds exactly one row, whose time is
\* the predicted time plus a non-negative whole multiple of the timedelta
\* and is not later than the update's own time.
C2_AppendAddsOneRowOnGrid ==
    [][\A t \in UpdateTimes : \A data \in UpdatesAt(t) : \A acc \in Accumulates(data) :
         (Loaded /\ ByUpdate /\ data.time >= main_data.next_bar_time
          /\ update_data(data, acc))
         => /\ main_data' # None
            /\ Len(main_data'.df) = Len(Rows) + 1
            /\ \A i \in 1..Len(Rows) : main_data'.df[i] = Rows[i]
            /\ Last(main_data'.df).time <= data.time
            /\ \E k \in 0..(data.time - main_data.next_bar_time) :
                 Last(main_data'.df).time = main_data.next_bar_time + k * main_data.pd_tf]_vars
\* An append that skipped one bar of the grid has happened.
C2_Witness ==
    /\ Loaded
    /\ last_live = "append"
    /\ Len(Rows) >= 3
    /\ main_data.pd_tf >= 2
    /\ Last(Rows).time - Rows[Len(Rows) - 1].time = 2 * main_data.pd_tf

\* C3: an update whose time is strictly before the current bar's open time
\* changes neither the rows, the predicted next-bar time, the snapshot nor
\* the whitespace window and notifies nobody; an update at the current bar's
\* open time is processed (observers are notified of it).
C3_StaleIsNoOp ==
    [][\A t \in UpdateTimes : \A data \in UpdatesAt(t) : \A acc \in Accumulates(data) :
         (Loaded /\ ByUpdate /\ data.time <= OpenTime /\ update_data(data, acc))
         => /\ data.time < OpenTime
                 => /\ UNCHANGED <<main_data, bar_state, whitespace_data>>
                    /\ notified' = << >>
                    /\ frame_cmds' = << >>
            /\ data.time = OpenTime => notified' = <<"update">>]_vars
\* A stale update was dropped by a store that holds data.
C3_Witness == Loaded /\ last_op = "update_stale" /\ notified = << >>

\* C4: the stored row timestamps are strictly increasing after load and
\* after every update.
C4_RowsStrictlyIncreasing ==
    Loaded => \A i \in 1..(Len(Rows) - 1) : Rows[i].time < Rows[i + 1].time

\* C5: on the mutate path, for a last row whose fields are defined: in an
\* OHLC store open is unchanged, high becomes the larger of the old high and
\* the incoming high (or value), low the smaller of the old low and the
\* incoming low (or value), close the incoming close (or value); in a
\* single-value store value becomes the incoming value (or close).
C5_MutateRule ==
    [][\A t \in UpdateTimes : \A data \in UpdatesAt(t) : \A acc \in Accumulates(data) :
         (/\ Loaded
          /\ ByUpdate
          /\ data.kind # "ws"
          /\ OpenTime <= data.time
          /\ data.time < main_data.next_bar_time
          /\ update_data(data, acc))
         => LET old == Last(Rows)
                new == Last(main_data'.df)
                in_high == IF data.kind = "ohlc" THEN data.high ELSE data.value
                in_low == IF data.kind = "ohlc" THEN data.low ELSE data.value
                in_close == IF data.kind = "ohlc" THEN data.close ELSE data.value
            IN IF main_data.data_type = "ohlc"
               THEN /\ new.open = old.open
                    /\ old.high # NA => new.high = Max(old.high, in_high)
                    /\ old.low # NA => new.low = Min(old.low, in_low)
                    /\ new.close = in_close
                    /\ new.value = old.value
               ELSE /\ new.value = in_close
                    /\ new.open = old.open /\ new.high = old.high
                    /\ new.low = old.low /\ new.close = old.close]_vars
\* An OHLC update has raised the high of a loaded bar and replaced its close,
\* leaving open and the lower low alone.
C5_Witness ==
    /\ Loaded
    /\ last_op = "update_mutate"
    /\ main_data.data_type = "ohlc"
    /\ Last(Rows).open = 2
    /\ Last(Rows).high = 5
    /\ Last(Rows).low = 1
    /\ Last(Rows).close = 3

\* C6: in a store with a volume column, a mutate-path update that carries a
\* volume sets the last row's volume to that volume when accumulate is
\* false, and to the row's volume before the update plus that volume when
\* accumulate is true (so a run of accumulating updates adds up).
C6_VolumeRule ==
    [][\A t \in UpdateTimes : \A data \in UpdatesAt(t) : \A acc \in Accumulates(data) :
         (/\ Loaded
          /\ ByUpdate
          /\ "volume" \in main_data.columns
          /\ data.volume # NA
          /\ OpenTime <= data.time
          /\ data.time < main_data.next_bar_time
          /\ update_data(data, acc))
         => LET old == Last(Rows).volume
                new == Last(main_data'.df).volume
            IN IF ~acc THEN new = data.volume
               ELSE IF old = NA THEN new = NA
               ELSE new = old + data.volume]_vars
\* Two accumulating updates of volume 2 have been added to a loaded bar.
C6_Witness ==
    /\ Loaded
    /\ last_op = "update_mutate"
    /\ "volume" \in main_data.columns
    /\ nops = 3
    /\ Last(Rows).volume >= 5

C8_ShapeFixed ==
    [][(Loaded /\ ByUpdate)
       => /\ main_data' # None
          /\ main_data'.data_type = main_data.data_type
          /\ main_data'.columns = main_data.columns]_vars

C10_DefaultExactlyWhenEmpty ==
    /\ [](/\ BarStateOut = DefaultBarState <=> ~Loaded
          /\ last_op \in {"init", "clear", "load_insufficient", "load_degenerate",
                      "load_raise_format"}
                => ~Loaded
          /\ ~Loaded => \A i \in -2..2 : bar_time(i) = Epoch)
    /\ [][(~Loaded /\ ByUpdate)
          => /\ UNCHANGED <<main_data, bar_state, whitespace_data>>
             /\ notified' = << >>]_vars
\* A load that raised a format error has emptied a series that held data.
C10_Witness ==
    /\ ~Loaded
    /\ last_op = "load_raise_format"
    /\ notified = <<"clear">>
    /\ BarStateOut = DefaultBarState

\* The public whitespace window of a series that holds one.
HasWindow == whitespace_data # None
Window == WhitespaceDF_df(whitespace_data)
StrictlyIncreasing(seq) == \A i \in 1..(Len(seq) - 1) : seq[i] < seq[i + 1]

\* C11: after construction, regeneration and any number of extend() calls
\* the public whitespace window holds exactly BUFFER_LEN entries, strictly
\* increasing.
C11_WindowHas500Increasing ==
    HasWindow => Len(Window) = BUFFER_LEN /\ StrictlyIncreasing(Window)
\* A window that was constructed at load and extended by an append.
C11_Witness ==
    /\ HasWindow
    /\ last_op = "update_append_extend"
    /\ Len(whitespace_data.dt_index) = BUFFER_LEN + OVERLAP_LEN + 1
    /\ Len(Window) = BUFFER_LEN

\* C12: for a primary store that holds data and a window, every entry of the
\* public whitespace window is strictly later than the last real bar's open
\* time, after load and after every update (regeneration included).
C12_WindowAfterLastBar ==
    (Loaded /\ HasWindow) => \A i \in 1..Len(Window) : Window[i] > OpenTime

C14_BarTimeClamps ==
    Loaded =>
        LET n == Len(Rows)
        IN /\ \A i \in (-n - 2)..(-n) : bar_time(i) = Rows[1].time
           /\ HasWindow =>
                 \A i \in (n + BUFFER_LEN)..(n + BUFFER_LEN + 2) : bar_time(i) = Last(Window)
           /\ ~HasWindow => \A i \in n..(n + 2) : bar_time(i) = Last(Rows).time

\* The times WhitespaceDF.next_timestamp is asked about: around the first
\* and around the last entry of dt_index.
ProbeTimes(ws) ==
    ((ws.dt_index[1] - 2)..(ws.dt_index[1] + 2))
    \cup ((Last(ws.dt_index) - 2)..(Last(ws.dt_index) + 2 * TF_as_timedelta(ws.tf) + 1))
EntriesAfter(ws, t) == {ws.dt_index[i] : i \in 1..Len(ws.dt_index)} \cap
                       ((t + 1)..(Last(ws.dt_index) + 1))

\* C15: WhitespaceDF.next_timestamp(time) raises when time is before the
\* first stored entry; for every time at or after it, it returns a timestamp
\* strictly greater than time, the smallest stored entry greater than time
\* whenever there is one.
C15_NextTimestampAfter ==
    HasWindow =>
        \A t \in ProbeTimes(whitespace_data) :
            IF t < whitespace_data.dt_index[1]
            THEN WhitespaceNextRaises(whitespace_data, t)
            ELSE LET r == WhitespaceDF_next_timestamp(whitespace_data, t)
                     after == EntriesAfter(whitespace_data, t)
                 IN /\ ~WhitespaceNextRaises(whitespace_data, t)
                    /\ r > t
                    /\ after # {} => (r \in after /\ \A e \in after : r <= e)

\* The cached calendars' session days.
CachedDays(c) == SeqSet(schedule_cache[c])

\* C16: next_timestamp(token, T, timeframe) is strictly greater than T (so
\* applying it twice never returns a value at or before T); for the "24/7"
\* token and a timeframe of fixed duration it is exactly T + duration.
C16_NextTimestampAdvances ==
    (cal_ret.op = "next_timestamp" /\ ~cal_ret.raised)
    => /\ cal_ret.ret > cal_ret.current_time
       /\ (cal_ret.calendar = "24/7")
            => /\ next_timestamp("24/7", cal_ret.ret, cal_ret.tf) > cal_ret.current_time
               /\ cal_ret.tf.period \notin {"W", "M", "Q", "Y"}
                    => cal_ret.ret = cal_ret.current_time + TF_as_timedelta(cal_ret.tf)
\* next_timestamp returned after the retry path extended the NYSE schedule.
C16_Witness ==
    /\ cal_ret.op = "next_timestamp"
    /\ ~cal_ret.raised
    /\ cal_ret.calendar = "NYSE"
    /\ cal_ret.tf.period = "h"
    /\ Len(schedule_cache["NYSE"]) > 2 * WEEK
    /\ cal_ret.ret > cal_ret.current_time + DAY

\* C17: across request_calendar, date_range and next_timestamp calls made
\* one after the other, every session day cached for a calendar stays
\* cached, a cached calendar stays cached, and the cached days are in
\* ascending order without repetition.
C17_ScheduleOnlyGrows ==
    [][\A c \in RealCalendars :
         /\ CachedDays(c) \subseteq SeqSet(schedule_cache'[c])
         /\ StrictlyIncreasing(schedule_cache'[c])
         /\ c \in mkt_cache => c \in mkt_cache']_vars
\* A cached NYSE schedule that a later request has extended.
C17_Witness ==
    /\ "NYSE" \in mkt_cache
    /\ cal_ret.op = "request_calendar"
    /\ nops = 2
    /\ schedule_cache["NYSE"][1] < 30 - WEEK
    /\ Last(schedule_cache["NYSE"]) >= 34 + WEEK

\* C18: when bar stores interleave schedule extensions for one calendar
\* token, no extension is lost: the cached session days never shrink and stay
\* in ascending order without repetition.
C18_NoLostExtension ==
    [][\A c \in RealCalendars :
         /\ CachedDays(c) \subseteq SeqSet(schedule_cache'[c])
         /\ StrictlyIncreasing(schedule_cache'[c])]_vars

\* C19: request_calendar does not raise; an exchange name that is missing,
\* or in neither table (compared in lower case), or any name while market
\* calendars are disabled gives the "24/7" token and leaves both caches
\* alone; a name in both tables resolves through the alternate-name table.
C19_UnknownExchangeIs247 ==
    [][\A exchange \in Exchanges : \A w \in RequestWindows :
         (/\ cal_ret'.op = "request_calendar"
          /\ request_calendar_call(exchange, w[1], w[2]))
         => LET e == Lower(exchange)
                in_alt == e \in DOMAIN ALT_EXCHANGE_NAMES
                in_primary == e \in DOMAIN EXCHANGE_NAMES
            IN /\ ~cal_ret'.raised
               /\ (~mcal \/ exchange = NoExchange \/ (~in_alt /\ ~in_primary))
                    => /\ cal_ret'.ret = "24/7"
                       /\ UNCHANGED <<mkt_cache, schedule_cache>>
               /\ (mcal /\ exchange # NoExchange /\ in_alt /\ in_primary)
                    => cal_ret'.ret = get_calendar(ALT_EXCHANGE_NAMES[e])
               /\ (mcal /\ exchange \in {"NYSE", "nyse"}) => cal_ret'.ret = "NYSE"]_vars
\* With a calendar cached, an unknown exchange name was answered with "24/7".
C19_Witness ==
    /\ mcal
    /\ mkt_cache # {}
    /\ cal_ret.op = "request_calendar"
    /\ cal_ret.exchange = "bogus"
    /\ cal_ret.ret = "24/7"
    /\ ~cal_ret.raised

\* C20: a load of fewer than 2 records returns without raising and leaves the
\* store empty: no rows, the default snapshot, no whitespace window, and the
\* observers are not told that data was set; while the store is empty an
\* update changes nothing and notifies nobody.
C20_InsufficientLoadIsEmpty ==
    [][/\ \A batch \in Batches :
            (Len(batch.times) < 2 /\ set_data(batch))
            => /\ last_op' = "load_insufficient"
               /\ ~Loaded'
               /\ BarStateOut' = DefaultBarState
               /\ whitespace_data' = None
               /\ \A i \in 1..Len(notified') : notified'[i] # "set"
       /\ (~Loaded /\ ByUpdate)
            => /\ UNCHANGED <<main_data, bar_state, whitespace_data>>
               /\ notified' = << >>
               /\ frame_cmds' = << >>]_vars
\* A load of fewer than 2 records replaced loaded data and left none.
C20_Witness ==
    /\ ~Loaded
    /\ last_op = "load_insufficient"
    /\ notified = <<"clear">>
    /\ BarStateOut = DefaultBarState
    /\ whitespace_data = None

\* The batch has no time-like column, or two aliases of one field.
NoTimeColumn(batch) == RawColumns(batch) \cap TimeAliases = {}
TwoAliases(batch) ==
    \E g \in AliasGroups : Cardinality(RawColumns(batch) \cap g.aliases) > 1

WindowCount(r, v) ==
    LET diffs == TD_WINDOW - 1
        c0 == LeadCount(r)
        c1 == Min(r.n1, diffs - c0)
        c2 == Min(r.n2, diffs - c0 - c1)
    IN (IF r.lead = v THEN c0 ELSE 0) + (IF r.s1 = v THEN c1 ELSE 0)
       + (IF r.s2 = v THEN c2 ELSE 0)

\* C22: the timedelta inferred for a batch is a most frequent difference of
\* consecutive timestamps among its first 250 records and the timeframe is
\* that timedelta; with one constant stride it is the stride; a first
\* difference other than the majority stride does not decide it.
C22_TimeframeIsMode ==
    fn_ret.op = "determine_timedelta" =>
        /\ \A v \in Leads \cup Strides : WindowCount(fn_ret, v) <= WindowCount(fn_ret, fn_ret.ret)
        /\ WindowCount(fn_ret, fn_ret.ret) > 0
        /\ fn_ret.tf = [mult |-> fn_ret.ret, period |-> "m"]
        /\ (fn_ret.lead \in {0, fn_ret.s1} /\ (fn_ret.n2 = 0 \/ fn_ret.s2 = fn_ret.s1))
             => fn_ret.ret = fn_ret.s1
        /\ (/\ fn_ret.lead \notin {0, fn_ret.s1}
            /\ \A v \in (Leads \cup Strides) \ {fn_ret.s1} :
                  WindowCount(fn_ret, v) < WindowCount(fn_ret, fn_ret.s1))
             => fn_ret.ret = fn_ret.s1
\* The majority stride was inferred for a series that starts with another
\* difference and whose records past the first 250 have a third stride.
C22_Witness ==
    /\ fn_ret.op = "determine_timedelta"
    /\ fn_ret.lead \notin {0, fn_ret.s1, fn_ret.s2}
    /\ fn_ret.n1 = TD_WINDOW - 2
    /\ fn_ret.n2 = TD_WINDOW + 10
    /\ fn_ret.s2 # fn_ret.s1
    /\ fn_ret.ret = fn_ret.s1

\* C23: when the last change to a store was a load or a mutate update,
\* re-applying the last stored row as an update (same time and field values,
\* accumulate false) adds no row and leaves every field of every row as it
\* was, however often it is applied.
C23_ReapplyLastRow ==
    [][(/\ Loaded
        /\ last_live \in {"load", "mutate"}
        /\ ByUpdate
        /\ update_data(current_bar(main_data), FALSE))
       => /\ last_op' = "update_mutate"
          /\ Rows' = Rows
          /\ main_data'.next_bar_time = main_data.next_bar_time]_vars
\* After a load and two mutate updates the store holds the loaded rows.
C23_Witness ==
    /\ Loaded
    /\ nops = 3
    /\ last_op = "update_mutate"
    /\ Rows = BatchRows([times |-> BaseRun \o <<Last(BaseRun) + RunStride>>,
                         shape |-> "ohlcv", fmt |-> "ok"])

\* The session label row i has after _mark_ext: the one given, else the one
\* the calendar derives, else none (NA).
RowLabel(r, i) ==
    IF r.rth # None /\ r.rth[i] # NA THEN r.rth[i]
    ELSE IF r.enabled /\ r.calendar # "24/7" THEN SessionLabel(r.times[i])
    ELSE NA

C25_DateRangeRetries ==
    (cal_ret.op = "date_range" /\ cal_ret.kind = "ltf")
    => /\ cal_ret.attempts \in 1..LTF_TRIES
       /\ cal_ret.raised => (cal_ret.attempts = LTF_TRIES /\ cal_ret.ret = 0)
       /\ ~cal_ret.raised
            => /\ cal_ret.ret >= cal_ret.start
               /\ BarsFrom(schedule_cache[cal_ret.calendar], cal_ret.td, cal_ret.start)
                     >= cal_ret.periods
\* A date_range call raised after its three attempts, the schedule extended
\* each time.
C25_Witness ==
    /\ cal_ret.op = "date_range"
    /\ cal_ret.kind = "ltf"
    /\ cal_ret.raised
    /\ cal_ret.attempts = LTF_TRIES
    /\ Len(schedule_cache[cal_ret.calendar]) > EXPAND_DAYS

\* The commands that concern the frame's whitespace series.
WhitespaceCmds == {"set_whitespace", "update_whitespace", "clear_whitespace"}

\* C26: a series holds a whitespace window only if it is the primary series
\* of its frame and has data loaded; a series that is not primary never holds
\* a window and never sends its frame a whitespace command, whatever calls
\* of set_data, update_data and clear_data it receives.
C26_WindowOnlyForPrimary ==
    /\ HasWindow => (primary /\ Loaded)
    /\ ~primary => /\ whitespace_data = None
                   /\ SeqSet(frame_cmds) \cap WhitespaceCmds = {}
\* A series that is not primary received three calls, the last a clear_data.
C26_Witness ==
    /\ ~primary
    /\ nops = 3
    /\ last_op = "clear"
    /\ notified = <<"clear">>
    /\ whitespace_data = None
    /\ frame_cmds = << >>

\* The number of notifications of one kind the last call sent.
NotifiedCount(kind) == Cardinality({i \in DOMAIN notified : notified[i] = kind})
\* The store, the snapshot and the window as update_data leaves them for a
\* non-stale update, read in the state in which the observers have been told.
UpdateReflected(data) ==
    LET appended == ~(data.time < main_data.next_bar_time)
        time == IF appended THEN SnapTime(main_data, data.time) ELSE OpenTime
        md == main_data'
        row == Last(md.df)
    IN /\ Len(md.df) = Len(Rows) + (IF appended THEN 1 ELSE 0)
       /\ row.time = time
       /\ data.kind = md.data_type /\ data.kind = "ohlc" => row.close = data.close
       /\ data.kind = md.data_type /\ data.kind = "sv" => row.value = data.value
       /\ bar_state' # None
       /\ bar_state'.index = Len(md.df) - 1
       /\ bar_state'.time = row.time
       /\ bar_state'.timestamp = (IF appended THEN time ELSE data.time)
       /\ bar_state'.is_new = appended
       /\ \A f \in {"open", "high", "low", "close", "value", "volume"} :
              bar_state'[f] = LastField(md, f)
       /\ primary /\ HasWindow =>
              IF appended
              THEN /\ whitespace_data' # None
                   /\ whitespace_data' # whitespace_data
                   /\ frame_cmds' \in {<<"set_whitespace">>, <<"update_whitespace">>}
                   /\ Last(WhitespaceDF_df(whitespace_data')) > row.time
              ELSE whitespace_data' = whitespace_data
\* What update_data tells the observers, for every update it can be given.
UpdateNotifies ==
    \A t \in UpdateTimes : \A data \in UpdatesTried(t) :
    \A accumulate \in Accumulates(data) :
       update_data(data, accumulate) =>
          IF Loaded /\ ~(data.time < OpenTime)
          THEN /\ notified' = <<"update">>
               /\ UpdateReflected(data)
          ELSE notified' = << >>
\* What a set_data that returned with data installed tells the observers.
LoadNotifies ==
    last_op' = "load" =>
       /\ NotifiedCount("set")' = 1
       /\ Last(notified') = "set"
       /\ NotifiedCount("update")' = 0
       /\ main_data' # None
       /\ bar_state' = init_bar_state(main_data')
       /\ primary => /\ whitespace_data' = WhitespaceDF(main_data')
                      /\ "set_whitespace" \in SeqSet(frame_cmds')
DegenerateLoads == {"load_insufficient", "load_degenerate"}

FreshLoad(batch, is_primary) ==
    IF Len(batch.times) <= 1 \/ standardize_names_raises(RawColumns(batch))
    THEN {[main_data |-> None, bar_state |-> None, whitespace_data |-> None]}
    ELSE {LET md == TimeseriesDF(batch, td)
          IN IF md.tf.period = "E" \/ md.data_type = "ws"
             THEN [main_data |-> None, bar_state |-> None, whitespace_data |-> None]
             ELSE [main_data |-> md,
                   bar_state |-> init_bar_state(md),
                   whitespace_data |-> IF is_primary /\ ~WhitespaceRaises(md)
                                       THEN WhitespaceDF(md) ELSE None] :
          td \in determine_timedelta(batch.times)}
LoadOps == {"load", "load_insufficient", "load_degenerate", "load_raise_format",
            "load_raise_whitespace"}

\* C28: whatever the series held and whatever calls it received before,
\* set_data of a batch leaves the rows, timeframe, predicted next-bar time,
\* snapshot and whitespace window that the same batch gives on a newly
\* constructed series; in particular the rows are the batch's rows only.
C28_LoadForgetsHistory ==
    last_op \in LoadOps =>
       /\ last_data \in Batches
       /\ [main_data |-> main_data, bar_state |-> bar_state,
           whitespace_data |-> whitespace_data] \in FreshLoad(last_data, primary)
       /\ Loaded =>
             {Rows[i].time : i \in DOMAIN Rows} \subseteq SeqSet(last_data.times)
\* The third call on a primary series was a load of a single-value batch: the
\* store holds that batch's rows, a new snapshot and a window built from them.
C28_Witness ==
    /\ primary /\ nops = 3 /\ last_op = "load"
    /\ last_data \in Batches /\ last_data.shape = "sv"
    /\ Loaded /\ main_data.data_type = "sv" /\ Len(Rows) = Len(last_data.times)
    /\ bar_state # None /\ bar_state.is_new
    /\ HasWindow

\* The responders the last emit reached: called at once, or handed to a task.
Reached == emitter.called \o emitter.tasks
\* The blocking functions of a list, in the list's order.
Blocking(funcs) == SelectSeq(funcs, LAMBDA f : ~iscoroutinefunction(f))

\* C29: after an emit on an Emitter with single_emit False, every responder in
\* the list was reached exactly once and the blocking ones were called in the
\* list's order, with and without rsp_handler; an Emitter with single_emit True
\* never holds more than one function, and an emit on it reaches only the
\* function added last.
C29_EmitReachesAll ==
    emitter # None =>
       /\ (~emitter.single_emitter /\ emitter.last = "call") =>
             /\ \A f \in SeqSet(emitter.funcs) :
                   Cardinality({i \in DOMAIN Reached : Reached[i] = f}) = 1
             /\ SeqSet(Reached) \subseteq SeqSet(emitter.funcs)
             /\ emitter.called = Blocking(emitter.funcs)
       /\ emitter.single_emitter =>
             /\ Len(emitter.funcs) <= 1
             /\ emitter.last = "call" => SeqSet(Reached) \subseteq {emitter.added}

\* C30: in every state of a loaded store next_bar_time is next_timestamp of
\* the store's calendar, its last row's timestamp and its timeframe, and is
\* strictly later than that timestamp; an append leaves a last row at the
\* snapped time of the update, and a mutate or a stale update leaves
\* next_bar_time as it was.
C30_NextBarTimeFollowsLastRow ==
    /\ [](Loaded =>
            /\ main_data.next_bar_time =
                   next_timestamp(main_data.calendar, Last(Rows).time, main_data.tf)
            /\ main_data.next_bar_time > Last(Rows).time)
    /\ [][(ByUpdate /\ Loaded) =>
            /\ main_data' # None
            /\ last_op' \in {"update_mutate", "update_stale"} =>
                  main_data'.next_bar_time = main_data.next_bar_time
            /\ last_live' = "append" /\ nops' = nops + 1 /\ last_op' # "update_stale"
                /\ last_op' # "update_mutate" =>
                  /\ Last(main_data'.df).time >= main_data.next_bar_time
                  /\ (Last(main_data'.df).time - main_data.next_bar_time)
                         % main_data.pd_tf = 0
                  /\ main_data'.next_bar_time > main_data.next_bar_time]_vars
\* A bar was appended past the predicted time, at a time off the grid that was
\* snapped back: the prediction moved one timeframe past the new last row.
C30_Witness ==
    /\ Loaded /\ last_live = "append" /\ last_op = "update_append"
    /\ Len(Rows) >= 3
    /\ Last(Rows).time > Rows[Len(Rows) - 1].time + main_data.pd_tf
    /\ bar_state # None /\ bar_state.timestamp = Last(Rows).time
    /\ main_data.next_bar_time = Last(Rows).time + main_data.pd_tf

\* What an append does to the window of a primary store that holds one: one
\* entry more at the end of the stored index when the new row's time is the
\* window's next timestamp after the previous bar, a newly built window
\* otherwise.
AppendManagesWindow ==
    LET row_time == Last(main_data'.df).time
    IN IF row_time = WhitespaceDF_next_timestamp(whitespace_data, OpenTime)
       THEN /\ whitespace_data' # None
            /\ Len(whitespace_data'.dt_index) = Len(whitespace_data.dt_index) + 1
            /\ SubSeq(whitespace_data'.dt_index, 1, Len(whitespace_data.dt_index))
                  = whitespace_data.dt_index
            /\ Last(whitespace_data'.dt_index) > Last(whitespace_data.dt_index)
            /\ frame_cmds' = <<"update_whitespace">>
       ELSE /\ whitespace_data' = WhitespaceDF(main_data')
            /\ frame_cmds' = <<"set_whitespace">>
\* The next state was reached by an update_data that appended a row.
ByAppend == ByUpdate /\ Loaded /\ main_data' # None
            /\ Len(main_data'.df) = Len(Rows) + 1

\* C31: on a primary store every append either extends the whitespace window
\* by one entry at its end, keeping the entries it stored, or replaces it by a
\* newly constructed one, according to whether the appended row's time is the
\* window's next timestamp after the previous bar's open time; a mutate or a
\* stale update leaves the window as it is and sends the frame nothing.
C31_AppendExtendsOrReplaces ==
    [][(primary /\ Loaded /\ ByUpdate) =>
          IF ByAppend
          THEN HasWindow /\ AppendManagesWindow
          ELSE UNCHANGED whitespace_data /\ frame_cmds' = << >>]_vars

\* Every session day of the days a..b is in the cached schedule.
Covers(sched, a, b) == SeqSet(schedule(a, b)) \subseteq SeqSet(sched)
\* The positions of the cached rows in the schedule cached afterwards.
KeptAt(old, new) ==
    {k \in 0..(Len(new) - Len(old)) : SubSeq(new, k + 1, k + Len(old)) = old}

\* C32: a request_calendar for a calendar that is cached, whose window padded
\* by a week has all its session days in the cached schedule, has the
\* calendar build no schedule and leaves the cached schedule as it is; any
\* other request for a cached calendar keeps the cached rows, in order and
\* together, and adds rows only before them when only the start is short and
\* only after them when only the end is short.
C32_CoveredRequestBuildsNothing ==
    [][(/\ cal_ret'.op = "request_calendar"
        /\ nops' = nops + 1
        /\ cal_ret'.ret \in mkt_cache)
       => LET c == cal_ret'.ret
              s == cal_ret'.start - WEEK
              e == cal_ret'.end + WEEK
              old == schedule_cache[c]
              new == schedule_cache'[c]
          IN IF Covers(old, s, e)
             THEN cal_ret'.built = 0 /\ new = old
             ELSE /\ KeptAt(old, new) # {}
                  /\ Covers(old, s, old[1]) => new[1] = old[1]
                  /\ Covers(old, Last(old), e) => Last(new) = Last(old)
                  /\ Covers(new, s, e)]_vars

\* The attempts of the last schedule-based date_range that failed.
FailedAttempts(ret) == ret.attempts - (IF ret.raised THEN 0 ELSE 1)
\* The days from the first to the last cached session day.
Span(sched) == Last(sched) - sched[1]

\* C33: a schedule-based date_range whose attempts failed leaves, whether it
\* returned or raised, a cached schedule that keeps the days it had and is
\* longer by 16 weeks (up to the weekend at its end) for every failed attempt,
\* on the side that was short: at the beginning when the range starts before
\* the first cached day, at the end otherwise.
C33_FailedAttemptExpands16Weeks ==
    [][(/\ cal_ret'.op = "date_range"
        /\ cal_ret'.kind = "ltf"
        /\ nops' = nops + 1
        /\ FailedAttempts(cal_ret') > 0)
       => LET c == cal_ret'.calendar
              old == schedule_cache[c]
              new == schedule_cache'[c]
          IN /\ SeqSet(old) \subseteq SeqSet(new)
             /\ Span(new) - Span(old) >= FailedAttempts(cal_ret') * (EXPAND_DAYS - 2)
             /\ DayOf(cal_ret'.start) < old[1] => old[1] - new[1] >= EXPAND_DAYS - 2
             /\ DayOf(cal_ret'.start) >= old[1] => new[1] = old[1]]_vars

\* C34: Calendars.date_range for a cached real calendar, given the timeframe
\* as a TF object (as WhitespaceDF gives it), derives the range from the
\* cached session schedule with the retry loop when the timeframe is shorter
\* than a day, and from the calendar's day-level schedule only when it is a
\* day or longer.
C34_SubDayTFUsesSchedule ==
    (/\ cal_ret.op = "date_range"
     /\ cal_ret.kind \in {"ltf", "htf"}
     /\ ~cal_ret.as_td)
    => (cal_ret.td < DAY <=> cal_ret.kind = "ltf")

\* C35: in every state of a loaded primary store that holds a window the
\* current bar's open time is at or after the first stored entry of the
\* window and before its last stored entry, and no update_data has ended in
\* the range error of WhitespaceDF.next_timestamp.
C35_LookupInsideWindow ==
    /\ (primary /\ Loaded /\ HasWindow) =>
          /\ whitespace_data.dt_index[1] <= OpenTime
          /\ OpenTime < Last(whitespace_data.dt_index)
    /\ last_op # "update_raise"

\* low <= open <= high and low <= close <= high, all four being numbers.
OhlcOrdered(row) ==
    /\ NA \notin {row.open, row.high, row.low, row.close}
    /\ row.low <= row.open /\ row.open <= row.high
    /\ row.low <= row.close /\ row.close <= row.high
AllOhlcOrdered(df) == \A i \in DOMAIN df : OhlcOrdered(df[i])

\* C36: in an OHLC store whose rows all satisfy low <= open <= high and
\* low <= close <= high, an update_data with a single value or a well-formed
\* OHLC bar leaves every row so ordered, and a mutate leaves the current
\* bar's high no lower and its low no higher. (A whitespace update is no such
\* update: appended, it is the row without a close.)
C36_OhlcStaysOrdered ==
    [][(/\ ByUpdate /\ Loaded /\ main_data' # None
        /\ main_data.data_type = "ohlc"
        /\ AllOhlcOrdered(Rows)
        /\ ~(Len(main_data'.df) > Len(Rows) /\ Last(main_data'.df).close = NA))
       => /\ AllOhlcOrdered(main_data'.df)
          /\ Len(main_data'.df) = Len(Rows) =>
                /\ Last(main_data'.df).high >= Last(Rows).high
                /\ Last(main_data'.df).low <= Last(Rows).low
                /\ Last(main_data'.df).open = Last(Rows).open]_vars
\* The current bar of an OHLC store after a single value above its high and a
\* single value below its low.
C36_Witness ==
    /\ Loaded /\ main_data.data_type = "ohlc" /\ last_op = "update_mutate"
    /\ nops = 3 /\ Len(Rows) = 2
    /\ Last(Rows).high = 5 /\ Last(Rows).low = 0 /\ Last(Rows).close = 0
    /\ Last(Rows).open = 2
    /\ AllOhlcOrdered(Rows)

\* C37: no update_data on a loaded store changes the store's timeframe, its
\* bar duration, its calendar token or its extended-hours flag, whichever
\* path the update takes.
C37_UpdateKeepsTimeframe ==
    [][(Loaded /\ ByUpdate)
       => /\ main_data' # None
          /\ main_data'.tf = main_data.tf
          /\ main_data'.pd_tf = main_data.pd_tf
          /\ main_data'.calendar = main_data.calendar
          /\ main_data'.ext = main_data.ext]_vars
\* A store loaded with bars two minutes apart that has since been appended
\* to, a bar's duration past the predicted time, and mutated.
C37_Witness ==
    /\ Loaded /\ nops = 3 /\ last_op = "update_mutate"
    /\ Len(Rows) = 3
    /\ Last(Rows).time - Rows[2].time = 2 * main_data.pd_tf
    /\ main_data.pd_tf = RunStride
    /\ main_data.tf = [mult |-> RunStride, period |-> "m"]
    /\ main_data.calendar = "24/7"

\* C38: for a primary series, set_data of a well-formed batch that leaves at
\* least two rows with distinct timestamps and a usable timeframe completes
\* without raising and builds a whitespace window of BUFFER_LEN entries,
\* also when the store holds fewer than OVERLAP_LEN rows.
C38_SmallLoadBuildsWindow ==
    (primary /\ last_op \in {"load", "load_raise_whitespace"})
       => /\ last_op = "load"
          /\ HasWindow
          /\ Len(Window) = BUFFER_LEN

\* set_data calls that end in an exception.
RaisedLoads == {"load_raise_format", "load_raise_whitespace"}
\* C39: set_data is all-or-nothing: whenever it raises, the series is left
\* with no rows, the default snapshot and no whitespace window, and no
\* observer has been notified.
C39_RaisedLoadLeavesNothing ==
    last_op \in RaisedLoads
       => /\ ~Loaded
          /\ BarStateOut = DefaultBarState
          /\ ~HasWindow
          /\ notified = << >>

====
